---- MODULE Spec2Model ----
(***************************************************************************)
(* A model of the Kraken Templates command line tool (src/cli/__init__.py):*)
(* the recipe action-execution engine, the $(name) variable substitutor,   *)
(* the command-value normaliser and the skeleton builder.                   *)
(*                                                                         *)
(* A text is a sequence of one-character strings.  A TOML value is a       *)
(* record [tag, key, val, items]: tag names its Python type, val is the    *)
(* text of a string, items the elements of a list or the entries of a      *)
(* table (each entry carrying its key).                                    *)
(***************************************************************************)
EXTENDS Integers, Sequences, FiniteSets, TLC

VARIABLES
    recipe,      \* the parsed recipe document handed to render_recipe
    actions,     \* the list _load_recipe_actions returned
    pc,          \* where render_recipe is: load, gate, dispatch, command, done, error
    index,       \* one-based index of the action being processed
    variables,   \* the recipe variable table (name -> text)
    cmdSeq,      \* the normalized command sequence of the running command action
    cmdPos,      \* position of the next entry of cmdSeq to execute
    error,       \* the ClickException that ended the run
    trace,       \* the calls made to the collaborators, in order
    template_content, \* the parsed template _prompt_context_for_template is given
    given_preset,     \* the preset it is given (None or a table)
    tpc,              \* where _prompt_context_for_template is
    visitor,          \* the TemplateIntrospector and the nodes it has yet to visit
    seed,             \* what _build_toml_template returned
    context_data,     \* what _prompt_context_for_template returned, and how
    called,           \* the function a single call of which is traced
    call_args,        \* the arguments of that call
    returned          \* what the call returned, once it has

evars == <<recipe, actions, pc, index, variables, cmdSeq, cmdPos, error, trace>>
tvars == <<template_content, given_preset, tpc, visitor, seed, context_data>>
fvars == <<called, call_args, returned>>
vars == <<evars, tvars, fvars>>

----------------------------------------------------------------------------
(* Bounds of the model. *)

\* The longest recipe, in actions.
MaxActions == 3
\* The longest 'command' list, and the longest nested list in it.
MaxItems == 2
\* The longest text handed to _substitute_variables, in pieces.
MaxPieces == 5

----------------------------------------------------------------------------
(* TOML values *)

None == [tag |-> "none", key |-> <<>>, val |-> <<>>, items |-> <<>>]
Str(t) == [tag |-> "str", key |-> <<>>, val |-> t, items |-> <<>>]
\* The integer 1, a value that is neither a string, a list nor a table.
IntVal == [tag |-> "int", key |-> <<>>, val |-> <<>>, items |-> <<>>]
List(xs) == [tag |-> "list", key |-> <<>>, val |-> <<>>, items |-> xs]
Table(xs) == [tag |-> "table", key |-> <<>>, val |-> <<>>, items |-> xs]
Entry(k, v) == [v EXCEPT !.key = k]

IsStr(v) == v.tag = "str"
IsList(v) == v.tag = "list"
IsTable(v) == v.tag = "table"
\* isinstance(x, str) and x
NonEmptyStr(v) == IsStr(v) /\ v.val # <<>>
\* str(x) of a string or of the integer
StrOf(v) == IF IsStr(v) THEN v.val ELSE <<"1">>

----------------------------------------------------------------------------
(* VARIABLE_PATTERN and _substitute_variables *)

Letters == {"v", "w"}
Digits == {"1"}
Alphabet == Letters \cup Digits \cup {"$", "(", ")", "-", "."}

\* [A-Za-z_]
IdStart(c) == c \in Letters
\* [A-Za-z0-9_]
IdChar(c) == c \in Letters \cup Digits

\* The last index of the greedy run [A-Za-z0-9_]* that starts at index i
\* (i - 1 when the run is empty).
RECURSIVE IdRunEnd(_, _)
IdRunEnd(text, i) ==
    IF i <= Len(text) /\ IdChar(text[i]) THEN IdRunEnd(text, i + 1) ELSE i - 1

\* VARIABLE_PATTERN matched at index i: the index of the closing ")" of the
\* match, or 0 when the pattern does not match there.
VariableMatchEnd(text, i) ==
    IF /\ i + 3 <= Len(text)
       /\ text[i] = "$"
       /\ text[i + 1] = "("
       /\ IdStart(text[i + 2])
    THEN LET e == IdRunEnd(text, i + 3)
         IN  IF e + 1 <= Len(text) /\ text[e + 1] = ")" THEN e + 1 ELSE 0
    ELSE 0

SubstOk(t) == [ok |-> TRUE, text |-> t, name |-> <<>>]
SubstFail(n) == [ok |-> FALSE, text |-> <<>>, name |-> n]

\* The mutant of UnknownVariable: an unknown name is replaced by nothing.
RECURSIVE SubstituteFrom(_, _, _)
UnknownVariableLenient(text, vs, i, e) ==
    SubstituteFrom(text, vs, e + 1)

\* _replace when the name is not a key of the table: the ClickException.
UnknownVariable(text, vs, i, e) ==
    SubstFail(SubSeq(text, i + 2, e - 1))

\* VARIABLE_PATTERN.sub(_replace, text) from index i on: leftmost match first,
\* matches do not overlap, the replacement is not scanned again.
SubstituteFrom(text, vs, i) ==
    IF i > Len(text) THEN SubstOk(<<>>)
    ELSE LET e == VariableMatchEnd(text, i)
         IN  IF e = 0
             THEN LET r == SubstituteFrom(text, vs, i + 1)
                  IN  IF r.ok THEN SubstOk(<<text[i]>> \o r.text) ELSE r
             ELSE LET name == SubSeq(text, i + 2, e - 1)
                  IN  IF name \notin DOMAIN vs
                      THEN UnknownVariable(text, vs, i, e)
                      ELSE LET r == SubstituteFrom(text, vs, e + 1)
                           IN  IF r.ok THEN SubstOk(vs[name] \o r.text) ELSE r

_substitute_variables(text, vs) == SubstituteFrom(text, vs, 1)

----------------------------------------------------------------------------
(* _coerce_command_value *)

AllStr(xs) == \A k \in 1..Len(xs) : IsStr(xs[k])

CoerceOk(seq) == [ok |-> TRUE, seq |-> seq]
CoerceFail == [ok |-> FALSE, seq |-> <<>>]

\* The mutant of CoerceStringList: one shell line per string of the list.
CoerceStringListSplit(value) == CoerceOk(value.items)

\* A non-empty list of strings only: one argument vector, the whole list.
CoerceStringList(value) == CoerceOk(<<value>>)

\* The mutant of CommandDefinition: an empty nested list is accepted.
CommandDefinitionAnyList(item) ==
    IsStr(item) \/ (IsList(item) /\ AllStr(item.items))

\* An element of a combined list: a string, or a non-empty list of strings.
CommandDefinition(item) ==
    IsStr(item) \/ (IsList(item) /\ item.items # <<>> /\ AllStr(item.items))

_coerce_command_value(value) ==
    IF IsStr(value) THEN CoerceOk(<<value>>)
    ELSE IF IsList(value)
    THEN IF value.items = <<>> THEN CoerceFail
         ELSE IF AllStr(value.items) THEN CoerceStringList(value)
         ELSE IF \A k \in 1..Len(value.items) : CommandDefinition(value.items[k])
              THEN CoerceOk(value.items)
              ELSE CoerceFail
    ELSE CoerceFail

----------------------------------------------------------------------------
(* _resolve_context_values *)

ResolveOk(v) == [ok |-> TRUE, value |-> v, name |-> <<>>]
ResolveFail(n) == [ok |-> FALSE, value |-> None, name |-> n]

RECURSIVE _resolve_context_values(_, _)
RECURSIVE ResolveItems(_, _)

\* The comprehension over the items of a list or of a table, keys kept; the
\* first unknown name raises.
ResolveItems(items, vs) ==
    IF items = <<>> THEN [ok |-> TRUE, items |-> <<>>, name |-> <<>>]
    ELSE LET first == _resolve_context_values(Head(items), vs)
         IN  IF ~first.ok THEN [ok |-> FALSE, items |-> <<>>, name |-> first.name]
             ELSE LET rest == ResolveItems(Tail(items), vs)
                  IN  IF ~rest.ok THEN rest
                      ELSE [ok |-> TRUE,
                            items |-> <<Entry(Head(items).key, first.value)>>
                                          \o rest.items,
                            name |-> <<>>]

\* (variant) A string that names a variable is not looked up.
ResolveWithoutLookup(value, vs) ==
    IF IsStr(value)
    THEN LET resolved == _substitute_variables(value.val, vs)
         IN  IF ~resolved.ok THEN ResolveFail(resolved.name)
             ELSE ResolveOk(Str(resolved.text))
    ELSE IF IsList(value) \/ IsTable(value)
    THEN LET r == ResolveItems(value.items, vs)
         IN  IF ~r.ok THEN ResolveFail(r.name)
             ELSE ResolveOk([value EXCEPT !.items = r.items])
    ELSE ResolveOk(value)

_resolve_context_values(value, vs) ==
    IF IsStr(value)
    THEN LET resolved == _substitute_variables(value.val, vs)
         IN  IF ~resolved.ok THEN ResolveFail(resolved.name)
             ELSE IF resolved.text = value.val /\ value.val \in DOMAIN vs
             THEN ResolveOk(Str(vs[value.val]))
             ELSE ResolveOk(Str(resolved.text))
    ELSE IF IsList(value) \/ IsTable(value)
    THEN LET r == ResolveItems(value.items, vs)
         IN  IF ~r.ok THEN ResolveFail(r.name)
             ELSE ResolveOk([value EXCEPT !.items = r.items])
    ELSE ResolveOk(value)

----------------------------------------------------------------------------
(* _expand_dotted_context_keys *)

\* key.split(".")
RECURSIVE SplitDots(_, _)
SplitDots(text, part) ==
    IF text = <<>> THEN <<part>>
    ELSE IF Head(text) = "." THEN <<part>> \o SplitDots(Tail(text), <<>>)
    ELSE SplitDots(Tail(text), Append(part, Head(text)))

Split(key) == SplitDots(key, <<>>)

\* The positions of a mapping's items that hold the key (a comment of a
\* document is an item with no key).
Holds(items, k) ==
    { j \in 1..Len(items) : items[j].tag # "comment" /\ items[j].key = k }

\* dict.get(key): the entry of that key with its key dropped, or None.
Get(items, k) ==
    IF Holds(items, k) # {}
    THEN [items[CHOOSE j \in Holds(items, k) : TRUE] EXCEPT !.key = <<>>]
    ELSE None

\* dict[key] = value: in place when the key exists, else appended.
Put(items, k, v) ==
    IF Holds(items, k) # {}
    THEN [j \in 1..Len(items) |->
             IF j \in Holds(items, k) THEN Entry(k, v) ELSE items[j]]
    ELSE Append(items, Entry(k, v))

\* dict.update(other)
RECURSIVE Update(_, _)
Update(items, other) ==
    IF other = <<>> THEN items
    ELSE Update(Put(items, Head(other).key, [Head(other) EXCEPT !.key = <<>>]),
                Tail(other))

ExpandOk(items) == [ok |-> TRUE, items |-> items, kind |-> "none"]
ExpandFail(kind) == [ok |-> FALSE, items |-> <<>>, kind |-> kind]

\* The walk of one key's parts from the mapping `items` down, and the store
\* at the leaf; returns the mapping as the walk leaves it.
RECURSIVE StoreAtPath(_, _, _)
StoreAtPath(items, parts, value) ==
    IF Len(parts) = 1
    THEN LET leaf == parts[1]
             existing == Get(items, leaf)
         IN  IF IsTable(existing) /\ ~IsTable(value)
             THEN ExpandFail("cannot_override")
             ELSE IF IsTable(existing) /\ IsTable(value)
             THEN ExpandOk(Put(items, leaf,
                               Table(Update(existing.items, value.items))))
             ELSE ExpandOk(Put(items, leaf, value))
    ELSE LET part == Head(parts)
             existing == Get(items, part)
         IN  IF existing # None /\ ~IsTable(existing)
             THEN ExpandFail("conflicts_with_scalar")
             ELSE LET below == StoreAtPath(IF existing = None THEN <<>>
                                           ELSE existing.items,
                                           Tail(parts), value)
                  IN  IF ~below.ok THEN below
                      ELSE ExpandOk(Put(items, part, Table(below.items)))

RECURSIVE ExpandInto(_, _)

\* The loop of _expand_dotted_context_keys over data.items(), `expanded`
\* holding what the earlier keys built.
ExpandInto(expanded, data) ==
    IF data = <<>> THEN ExpandOk(expanded)
    ELSE LET entry == Head(data)
             inner == IF IsTable(entry) THEN ExpandInto(<<>>, entry.items)
                      ELSE ExpandOk(<<>>)
         IN  IF ~inner.ok THEN inner
             ELSE LET value == IF IsTable(entry) THEN Table(inner.items)
                               ELSE [entry EXCEPT !.key = <<>>]
                      stored == StoreAtPath(expanded, Split(entry.key), value)
                  IN  IF ~stored.ok THEN stored
                      ELSE ExpandInto(stored.items, Tail(data))

_expand_dotted_context_keys(data) == ExpandInto(<<>>, data.items)

----------------------------------------------------------------------------
(* The parsed template (jinja2.nodes) and TemplateIntrospector *)

Name(n) == [k |-> "Name", name |-> n]
Const(v) == [k |-> "Const", value |-> v]
Getattr(e, a) == [k |-> "Getattr", node |-> e, attr |-> a]
Getitem(e, arg) == [k |-> "Getitem", node |-> e, arg |-> arg]
Tuple(xs) == [k |-> "Tuple", items |-> xs]
TemplateData == [k |-> "TemplateData"]
Output(e) == [k |-> "Output", nodes |-> <<e>>]
For(target, iter, body, else_) ==
    [k |-> "For", target |-> target, iter |-> iter, body |-> body, else_ |-> else_]
Template(body) == [k |-> "Template", body |-> body]

N_loop == <<"l", "o", "o", "p">>
N_value == <<"v", "a", "l", "u", "e">>

\* node.iter_child_nodes(): the child nodes in field order.
Children(node) ==
    IF node.k = "Getattr" THEN <<node.node>>
    ELSE IF node.k = "Getitem" THEN <<node.node, node.arg>>
    ELSE IF node.k = "Tuple" THEN node.items
    ELSE IF node.k = "Output" THEN node.nodes
    ELSE IF node.k = "Template" THEN node.body
    ELSE IF node.k = "For"
    THEN <<node.target, node.iter>> \o node.body \o node.else_
    ELSE <<>>

\* _literal_key: the key of a literal string index, else None
\* (here: IsStr of the result tells which).
_literal_key(node) ==
    IF node.k = "Const" /\ IsStr(node.value) THEN node.value ELSE None

\* The while loop of _flatten_access: the parts collected leaf first, and
\* the node the loop stopped at.
RECURSIVE FlattenWalk(_, _)
FlattenWalk(current, parts) ==
    IF current.k = "Getattr"
    THEN FlattenWalk(current.node, Append(parts, current.attr))
    ELSE IF current.k = "Getitem" /\ IsStr(_literal_key(current.arg))
    THEN FlattenWalk(current.node, Append(parts, _literal_key(current.arg).val))
    ELSE [current |-> current, parts |-> parts]

Reversed(xs) == [j \in 1..Len(xs) |-> xs[Len(xs) + 1 - j]]

_flatten_access(node) ==
    LET w == FlattenWalk(node, <<>>)
    IN  IF w.current.k = "Name"
        THEN Reversed(Append(w.parts, w.current.name))
        ELSE <<>>

RECURSIVE _extract_target_names(_)
RECURSIVE ExtractAll(_)
ExtractAll(items) ==
    IF items = <<>> THEN {}
    ELSE _extract_target_names(Head(items)) \cup ExtractAll(Tail(items))

_extract_target_names(target) ==
    IF target.k = "Name" THEN {target.name}
    ELSE IF target.k = "Tuple" THEN ExtractAll(target.items)
    ELSE {}

\* _iterable_name: the name, or None (here the empty text, which a name
\* of the grammar never is).
_iterable_name(node) == IF node.k = "Name" THEN node.name ELSE <<>>

\* The inspector as __init__ leaves it, about to visit the nodes of `todo`.
NewInspector(todo) ==
    [agenda |-> todo,
     list_fields |-> [n \in {} |-> {}],
     nested_fields |-> [n \in {} |-> {}],
     _scope_stack |-> << {} >>,
     _loop_stack |-> <<>>]

Visit(node) == [op |-> "visit", node |-> node]
Leave == [op |-> "leave"]
VisitAll(ns) == [j \in 1..Len(ns) |-> Visit(ns[j])]

_is_local(v, name) ==
    \E j \in 1..Len(v._scope_stack) : name \in v._scope_stack[j]

\* The innermost loop binding whose targets hold the name, or None (<<>>).
_loop_iter_for_local(v, name) ==
    LET hits == { j \in 1..Len(v._loop_stack) : name \in v._loop_stack[j].targets }
    IN  IF hits = {} THEN <<>>
        ELSE v._loop_stack[CHOOSE j \in hits : \A h \in hits : h <= j].iter_name

\* defaultdict(set)[key].add(attr)
AddField(fields, key, attr) ==
    [n \in DOMAIN fields \cup {key} |->
        IF n = key
        THEN (IF key \in DOMAIN fields THEN fields[key] ELSE {}) \cup {attr}
        ELSE fields[n]]

_register_access(v, node) ==
    LET parts == _flatten_access(node)
    IN  IF Len(parts) < 2 THEN v
        ELSE LET base == parts[1]
                 attr == parts[2]
             IN  IF _is_local(v, base)
                 THEN LET iter_name == _loop_iter_for_local(v, base)
                      IN  IF iter_name # <<>>
                          THEN [v EXCEPT !.list_fields =
                                    AddField(v.list_fields, iter_name, attr)]
                          ELSE v
                 ELSE [v EXCEPT !.nested_fields =
                           AddField(v.nested_fields, base, attr)]

\* visit_For up to the visit of the body: the two pushes; the body, the two
\* pops and the else clause are put on the agenda in that order.
visit_For(v, node) ==
    LET target_names == _extract_target_names(node.target)
        iter_name == _iterable_name(node.iter)
    IN  [v EXCEPT
           !._loop_stack = Append(@, [targets |-> target_names,
                                      iter_name |-> iter_name]),
           !._scope_stack = Append(@, target_names \cup {N_loop}),
           !.agenda = VisitAll(node.body) \o <<Leave>> \o VisitAll(node.else_)
                          \o Tail(@)]

\* (variant) The loop binding is popped and the scope is left on its stack.
LeaveForKeepsScope(v) ==
    [v EXCEPT !._loop_stack = SubSeq(@, 1, Len(@) - 1),
              !.agenda = Tail(@)]

\* The two pops of visit_For after the body.
LeaveFor(v) ==
    [v EXCEPT !._scope_stack = SubSeq(@, 1, Len(@) - 1),
              !._loop_stack = SubSeq(@, 1, Len(@) - 1),
              !.agenda = Tail(@)]

\* visit_Getattr and visit_Getitem: register, then generic_visit.
VisitAccess(v, node) ==
    [_register_access(v, node) EXCEPT
        !.agenda = VisitAll(Children(node)) \o Tail(@)]

\* NodeVisitor.generic_visit for the other nodes.
generic_visit(v, node) ==
    [v EXCEPT !.agenda = VisitAll(Children(node)) \o Tail(@)]

\* One step of the visit: the head of the agenda is carried out.
VisitStep(v) ==
    LET item == Head(v.agenda)
    IN  IF item.op = "leave" THEN LeaveFor(v)
        ELSE IF item.node.k = "For" THEN visit_For(v, item.node)
        ELSE IF item.node.k \in {"Getattr", "Getitem"}
        THEN VisitAccess(v, item.node)
        ELSE generic_visit(v, item.node)

\* inspector.visit(parsed), run to its end.
RECURSIVE RunVisit(_)
RunVisit(v) == IF v.agenda = <<>> THEN v ELSE RunVisit(VisitStep(v))

inspector_visit(parsed) == RunVisit(NewInspector(<<Visit(parsed)>>))

----------------------------------------------------------------------------
(* _build_toml_template, _apply_preset_to_doc, _prompt_context_for_template *)

\* jinja2.meta.find_undeclared_variables: the names the template reads and
\* does not bind.  A loop binds its targets and "loop" in its body only; its
\* iterable and its else clause are read outside that binding.
RECURSIVE Undeclared(_, _)
RECURSIVE UndeclaredAll(_, _)
UndeclaredAll(ns, declared) ==
    IF ns = <<>> THEN {}
    ELSE Undeclared(Head(ns), declared) \cup UndeclaredAll(Tail(ns), declared)

Undeclared(node, declared) ==
    IF node.k = "Name"
    THEN IF node.name \in declared THEN {} ELSE {node.name}
    ELSE IF node.k = "For"
    THEN Undeclared(node.iter, declared)
         \cup UndeclaredAll(node.body,
                 declared \cup _extract_target_names(node.target) \cup {N_loop})
         \cup UndeclaredAll(node.else_, declared)
    ELSE UndeclaredAll(Children(node), declared)

find_undeclared_variables(parsed) == Undeclared(parsed, {})

\* The order of Python's str comparison on the characters the model uses.
CharOrder ==
    <<"$", "(", ")", "-", ".", "1", "a", "b", "e", "l", "o", "p", "u", "v", "w">>
Rank(c) == CHOOSE j \in 1..Len(CharOrder) : CharOrder[j] = c

RECURSIVE TextLess(_, _)
TextLess(a, b) ==
    IF b = <<>> THEN FALSE
    ELSE IF a = <<>> THEN TRUE
    ELSE IF Head(a) = Head(b) THEN TextLess(Tail(a), Tail(b))
    ELSE Rank(Head(a)) < Rank(Head(b))

\* sorted(names)
RECURSIVE Sorted(_)
Sorted(names) ==
    IF names = {} THEN <<>>
    ELSE LET least == CHOOSE n \in names : \A m \in names \ {n} : TextLess(n, m)
         IN  <<least>> \o Sorted(names \ {least})

\* comment("Update the values below and save to render the template.")
Comment == [tag |-> "comment", key |-> <<>>, val |-> <<>>, items |-> <<>>]
AoT(rows) == [tag |-> "aot", key |-> <<>>, val |-> <<>>, items |-> rows]
IsAoT(v) == v.tag = "aot"

\* A table whose keys are the names, in that order, each an empty string.
EmptySlots(names) == Table([j \in 1..Len(names) |-> Entry(names[j], Str(<<>>))])

RECURSIVE _apply_preset_to_doc(_, _)
RECURSIVE PresetRows(_)
\* The rows the list branch appends to the emptied array of tables.
PresetRows(value) ==
    IF value = <<>> THEN <<>>
    ELSE LET entry == Head(value)
         IN  <<IF IsTable(entry)
                THEN Table(_apply_preset_to_doc(<<>>, entry.items))
                ELSE entry>> \o PresetRows(Tail(value))

\* The mutant of _apply_preset_to_doc: a mapping of the preset replaces
\* the table that is there instead of being merged into it.
ApplyPresetReplacing(target, preset) ==
    IF preset = <<>> THEN target
    ELSE LET key == Head(preset).key
             value == [Head(preset) EXCEPT !.key = <<>>]
             existing == Get(target, key)
             merged ==
                 IF IsTable(value)
                 THEN Put(target, key,
                          Table(_apply_preset_to_doc(<<>>, value.items)))
                 ELSE IF IsList(value)
                 THEN IF IsAoT(existing)
                      THEN Put(target, key, AoT(PresetRows(value.items)))
                      ELSE Put(target, key, value)
                 ELSE Put(target, key, value)
         IN  _apply_preset_to_doc(merged, Tail(preset))

\* The items of `target` after the loop over preset.items().
_apply_preset_to_doc(target, preset) ==
    IF preset = <<>> THEN target
    ELSE LET key == Head(preset).key
             value == [Head(preset) EXCEPT !.key = <<>>]
             existing == Get(target, key)
             merged ==
                 IF IsTable(value)
                 THEN IF IsTable(existing)
                      THEN Put(target, key,
                               Table(_apply_preset_to_doc(existing.items, value.items)))
                      ELSE Put(target, key,
                               Table(_apply_preset_to_doc(<<>>, value.items)))
                 ELSE IF IsList(value)
                 THEN IF IsAoT(existing)
                      THEN Put(target, key, AoT(PresetRows(value.items)))
                      ELSE Put(target, key, value)
                 ELSE Put(target, key, value)
         IN  _apply_preset_to_doc(merged, Tail(preset))

\* The mutant of Preamble: the document starts with no comment.
PreambleNone == <<>>

\* doc = document(); doc.add(comment(...))
Preamble == <<Comment>>

\* The mutant of SkeletonDocument: a name of list_fields is not set apart,
\* it also gets its scalar slot or its table.
SkeletonDocumentNoPrecedence(inspector, global_vars) ==
    LET listed == DOMAIN inspector.list_fields
        nested == DOMAIN inspector.nested_fields
        scalar_vars == SelectSeq(global_vars, LAMBDA n : n \notin nested)
        table_vars == { global_vars[j] : j \in 1..Len(global_vars) } \cap nested
        tables == LET names == Sorted(table_vars)
                  IN  [j \in 1..Len(names) |->
                         Entry(names[j],
                               EmptySlots(Sorted(inspector.nested_fields[names[j]])))]
        arrays == LET names == Sorted(listed)
                  IN  [j \in 1..Len(names) |->
                         LET attrs == inspector.list_fields[names[j]]
                             values == IF attrs # {} THEN attrs ELSE {N_value}
                         IN  Entry(names[j], AoT(<<EmptySlots(Sorted(values))>>))]
    IN  Preamble
        \o [j \in 1..Len(scalar_vars) |-> Entry(scalar_vars[j], Str(<<>>))]
        \o tables \o arrays


\* The document _build_toml_template builds from the finished inspector.
SkeletonDocument(inspector, global_vars) ==
    LET listed == DOMAIN inspector.list_fields
        nested == DOMAIN inspector.nested_fields
        scalar_vars == SelectSeq(global_vars,
                           LAMBDA n : n \notin listed /\ n \notin nested)
        table_vars == { global_vars[j] : j \in 1..Len(global_vars) }
                          \cap (nested \ listed)
        tables == LET names == Sorted(table_vars)
                  IN  [j \in 1..Len(names) |->
                         Entry(names[j],
                               EmptySlots(Sorted(inspector.nested_fields[names[j]])))]
        arrays == LET names == Sorted(listed)
                  IN  [j \in 1..Len(names) |->
                         LET attrs == inspector.list_fields[names[j]]
                             values == IF attrs # {} THEN attrs ELSE {N_value}
                         IN  Entry(names[j], AoT(<<EmptySlots(Sorted(values))>>))]
    IN  Preamble
        \o [j \in 1..Len(scalar_vars) |-> Entry(scalar_vars[j], Str(<<>>))]
        \o tables \o arrays

\* tomlkit.dumps: the lines of the document.  A comment is a line, a
\* key/value pair is a line, a table or a row of an array of tables is a
\* blank line, its header and its lines.
Line(kind, path, value) == [kind |-> kind, path |-> path, value |-> value]

RECURSIVE DumpItems(_, _)
RECURSIVE DumpRows(_, _)
DumpRows(path, rows) ==
    IF rows = <<>> THEN <<>>
    ELSE (IF IsTable(Head(rows))
          THEN <<Line("blank", <<>>, None), Line("aot_header", path, None)>>
                   \o DumpItems(path, Head(rows).items)
          ELSE <<Line("pair", path, Head(rows))>>)
         \o DumpRows(path, Tail(rows))

DumpItems(path, items) ==
    IF items = <<>> THEN <<>>
    ELSE LET item == Head(items)
             here == Append(path, item.key)
         IN  (IF item.tag = "comment" THEN <<Line("comment", <<>>, None)>>
              ELSE IF IsTable(item)
              THEN <<Line("blank", <<>>, None), Line("table_header", here, None)>>
                       \o DumpItems(here, item.items)
              ELSE IF IsAoT(item) THEN DumpRows(here, item.items)
              ELSE <<Line("pair", here, [item EXCEPT !.key = <<>>])>>)
             \o DumpItems(path, Tail(items))

Text(lines, final_newline) == [lines |-> lines, final_newline |-> final_newline]
EmptyText == Text(<<>>, FALSE)

dumps(doc) == IF doc = <<>> THEN EmptyText ELSE Text(DumpItems(<<>>, doc), TRUE)

\* str.strip() of a text: the blank lines at both ends and the final
\* newline go.
RECURSIVE DropBlank(_)
DropBlank(lines) ==
    IF lines # <<>> /\ Head(lines).kind = "blank" THEN DropBlank(Tail(lines))
    ELSE lines

strip(text) ==
    Text(Reversed(DropBlank(Reversed(DropBlank(text.lines)))), FALSE)

\* `if preset:` -- a table with at least one key
Truthy(preset) == IsTable(preset) /\ preset.items # <<>>

\* _build_toml_template from the finished inspector on.
BuildFrom(inspector, global_vars, preset) ==
    LET doc0 == SkeletonDocument(inspector, global_vars)
        doc == IF Truthy(preset) THEN _apply_preset_to_doc(doc0, preset.items)
               ELSE doc0
        rendered == strip(dumps(doc))
    IN  IF rendered.lines # <<>> THEN Text(rendered.lines, TRUE) ELSE EmptyText

\* The inspector and the sorted names are computed once and handed on.
_build_toml_template(source, preset) ==
    CHOOSE text \in { BuildFrom(inspector, global_vars, preset) :
                         inspector \in { inspector_visit(source) },
                         global_vars \in { Sorted(find_undeclared_variables(source)) } } :
        TRUE

\* `if not toml_seed.strip()`: nothing to collect, the editor is not opened.
NothingToCollect(toml_seed) == strip(toml_seed).lines = <<>>

----------------------------------------------------------------------------
(* The recipe documents the model runs. *)

T_template == <<"t", "e", "m", "p", "l", "a", "t", "e">>
T_command == <<"c", "o", "m", "m", "a", "n", "d">>
T_prompt == <<"p", "r", "o", "m", "p", "t">>
T_deploy == <<"d", "e", "p", "l", "o", "y">>

RefV == <<"$", "(", "v", ")">>
RefW == <<"$", "(", "w", ")">>

\* An [[actions]] entry with no key set.
NoKeys ==
    [table |-> TRUE, type |-> None, gate |-> None, name |-> None,
     context |-> None, output |-> None, command |-> None, prompt |-> None,
     var |-> None, default |-> None]

PromptV == [NoKeys EXCEPT !.type = Str(T_prompt), !.prompt = Str(<<"-">>),
                          !.var = Str(<<"v">>)]
CommandV == [NoKeys EXCEPT !.type = Str(T_command),
                           !.command = Str(<<"-">> \o RefV)]
CommandList == [NoKeys EXCEPT !.type = Str(T_command),
                   !.command = List(<<List(<<Str(<<"-">>), Str(RefV)>>), Str(<<"w">>)>>)]
TemplateV == [NoKeys EXCEPT !.type = Str(T_template), !.name = Str(<<"v">>),
                            !.output = Str(RefV)]
Deploy == [NoKeys EXCEPT !.type = Str(T_deploy)]

Gated(a, g) == [a EXCEPT !.gate = g]

ActionPool ==
    { PromptV,
      Gated(PromptV, Str(<<"-">>)),
      [PromptV EXCEPT !.var = Str(<<"w">>), !.default = Str(<<"1">>)],
      [PromptV EXCEPT !.var = None],
      [PromptV EXCEPT !.prompt = Str(<<>>)],
      CommandV,
      Gated(CommandV, Str(RefV)),
      CommandList,
      [CommandV EXCEPT !.command = List(<<Str(<<"-">>), Str(<<"w">>)>>)],
      [CommandV EXCEPT !.command = List(<<>>)],
      [CommandV EXCEPT !.command = None],
      TemplateV,
      Gated([TemplateV EXCEPT !.output = None], Str(<<"-">>)),
      [TemplateV EXCEPT !.name = Str(<<"w">>)],
      [TemplateV EXCEPT !.name = None],
      [TemplateV EXCEPT !.output = IntVal],
      [TemplateV EXCEPT !.context = IntVal],
      [TemplateV EXCEPT !.output = None,
          !.context = Table(<<Entry(<<"w", ".", "v">>, Str(RefV)),
                              Entry(<<"w">>, Str(<<"1">>))>>)],
      Deploy,
      Gated(Deploy, Str(<<"-">>)),
      Gated(CommandV, IntVal),
      Gated(PromptV, Str(<<>>)),
      [NoKeys EXCEPT !.table = FALSE],
      [CommandV EXCEPT !.type = None],
      [CommandV EXCEPT !.type = IntVal],
      [CommandV EXCEPT !.type = Str(<<>>)] }

\* The stored recipe: no recipe of that name, text that is no TOML, or a
\* document whose "actions" is absent, a value that is no list, or a list.
Documents ==
    { [kind |-> k, list |-> <<>>] :
         k \in {"missing", "invalid", "absent", "scalar", "list"} }
    \cup { [kind |-> "list", list |-> l] :
              l \in UNION { [1..n -> ActionPool] : n \in 1..MaxActions } }

\* The template store: name -> parsed content.
TemplateStore ==
    [n \in { <<"v">> } |-> Template(<<TemplateData>>)]
\* The answers the line-input collaborator may give.
Answers == { <<"1">>, <<"w">> }
\* The exit statuses a child process may end with.
ExitStatuses == { 0, 1, 2 }

NoError == [kind |-> "none", index |-> 0, name |-> <<>>, code |-> 0]
Error(kind, i, name, code) ==
    [kind |-> kind, index |-> i, name |-> name, code |-> code]
Event(ev, i, k, argv, status) ==
    [ev |-> ev, index |-> i, k |-> k, argv |-> argv, status |-> status]

\* What subprocess.run does: it raises OSError or returns an exit status.
ProcessOutcomes ==
    { [raised |-> FALSE, code |-> c] : c \in ExitStatuses }
    \cup { [raised |-> TRUE, code |-> 0] }

----------------------------------------------------------------------------
(* render_recipe: _load_recipe_actions, then _execute_recipe_actions *)

EmptyTable == [n \in {} |-> <<>>]

\* The classification pipeline when no call of it is being traced.
Idle ==
    /\ template_content = Template(<<>>)
    /\ given_preset = None
    /\ tpc = "off"
    /\ visitor = NewInspector(<<>>)
    /\ seed = EmptyText
    /\ context_data = [how |-> "none", value |-> None]

\* No single call is being traced.
NoCall ==
    /\ called = "none"
    /\ call_args = <<>>
    /\ returned = <<>>

\* No recipe is being run.
NoRecipe ==
    /\ recipe = [kind |-> "missing", list |-> <<>>]
    /\ actions = <<>>
    /\ pc = "off"
    /\ index = 0
    /\ variables = EmptyTable
    /\ cmdSeq = <<>>
    /\ cmdPos = 0
    /\ error = NoError
    /\ trace = <<>>

Init ==
    /\ Idle
    /\ NoCall
    /\ recipe \in Documents
    /\ actions = <<>>
    /\ pc = "load"
    /\ index = 0
    /\ variables = EmptyTable
    /\ cmdSeq = <<>>
    /\ cmdPos = 0
    /\ error = NoError
    /\ trace = <<>>

\* The mutant of Raise: the failure is swallowed and the loop goes on.
RaiseAndContinue(e, tr) ==
    /\ error' = e
    /\ trace' = tr
    /\ IF index >= 1 /\ index < Len(actions)
       THEN pc' = "gate" /\ index' = index + 1
       ELSE pc' = "error" /\ index' = index
    /\ UNCHANGED <<recipe, actions, variables, cmdSeq, cmdPos>>

\* A ClickException leaves render_recipe: nothing catches it, nothing is undone.
Raise(e, tr) ==
    /\ pc' = "error"
    /\ error' = e
    /\ trace' = tr
    /\ UNCHANGED <<recipe, actions, index, variables, cmdSeq, cmdPos>>

\* The mutant of NextAction: the loop ends one action early.
NextActionStopsEarly ==
    IF index >= Len(actions) - 1
    THEN pc' = "done" /\ index' = index
    ELSE pc' = "gate" /\ index' = index + 1

\* The for loop of _execute_recipe_actions moves past action index.
NextAction ==
    IF index = Len(actions)
    THEN pc' = "done" /\ index' = index
    ELSE pc' = "gate" /\ index' = index + 1

\* The mutant of ValidEntry: the type is not looked at.
ValidEntryTableOnly(a) == a.table

\* An entry _load_recipe_actions accepts: a table with a non-empty string type.
ValidEntry(a) == a.table /\ NonEmptyStr(a.type)

_load_recipe_actions ==
    /\ pc = "load"
    /\ UNCHANGED <<tvars, fvars>>
    /\ IF recipe.kind = "missing"
       THEN Raise(Error("recipe_not_found", 0, <<>>, 0), trace)
       ELSE IF recipe.kind = "invalid"
       THEN Raise(Error("invalid_toml", 0, <<>>, 0), trace)
       ELSE IF recipe.kind # "list" \/ recipe.list = <<>>
       THEN Raise(Error("no_actions", 0, <<>>, 0), trace)
       ELSE LET bad == { k \in 1..Len(recipe.list) : ~ValidEntry(recipe.list[k]) }
            IN  IF bad # {}
                THEN LET k == CHOOSE x \in bad : \A y \in bad : x <= y
                     IN  IF ~recipe.list[k].table
                         THEN Raise(Error("not_a_table", k, <<>>, 0), trace)
                         ELSE Raise(Error("missing_type", k, <<>>, 0), trace)
                ELSE /\ actions' = recipe.list
                     /\ pc' = "gate"
                     /\ index' = 1
                     /\ UNCHANGED <<recipe, variables, cmdSeq, cmdPos, error, trace>>

\* The mutant of GateValid: an empty gate string is accepted.
GateValidAnyString(g) == IsStr(g)

\* A gate _should_run_action accepts: a non-empty string.
GateValid(g) == IsStr(g) /\ g.val # <<>>

\* The mutant of AfterGate: a declined action is dispatched all the same.
AfterGateAlways(confirmed) == "dispatch"

\* What the loop does with _should_run_action's answer: dispatch, or continue.
AfterGate(confirmed) == IF confirmed THEN "dispatch" ELSE "continue"

_should_run_action ==
    /\ pc = "gate"
    /\ UNCHANGED <<tvars, fvars>>
    /\ LET gate_value == actions[index].gate
       IN  IF gate_value = None
           THEN /\ pc' = "dispatch"
                /\ UNCHANGED <<recipe, actions, index, variables, cmdSeq,
                               cmdPos, error, trace>>
           ELSE IF ~GateValid(gate_value)
           THEN Raise(Error("gate_invalid", index, <<>>, 0), trace)
           ELSE LET prompt_text == _substitute_variables(gate_value.val, variables)
                IN  IF ~prompt_text.ok
                    THEN Raise(Error("unknown_variable", 0, prompt_text.name, 0), trace)
                    ELSE \E confirmed \in BOOLEAN :
                           LET asked == Append(trace,
                                   Event("confirm", index, 0, <<prompt_text.text>>,
                                         IF confirmed THEN 1 ELSE 0))
                           IN  IF AfterGate(confirmed) = "dispatch"
                               THEN /\ pc' = "dispatch"
                                    /\ trace' = asked
                                    /\ UNCHANGED <<recipe, actions, index, variables,
                                                   cmdSeq, cmdPos, error>>
                               ELSE /\ NextAction
                                    /\ trace' = Append(asked,
                                           Event("skip", index, 0, <<>>, 0))
                                    /\ UNCHANGED <<recipe, actions, variables,
                                                   cmdSeq, cmdPos, error>>

\* The mutant of ActionKind: an unknown type is run as a command action.
ActionKindDefaultCommand(action_type) ==
    IF action_type = T_template THEN "template"
    ELSE IF action_type = T_prompt THEN "prompt"
    ELSE "command"

\* The if/elif chain of _execute_recipe_actions on action.get("type").
ActionKind(action_type) ==
    IF action_type = T_template THEN "template"
    ELSE IF action_type = T_command THEN "command"
    ELSE IF action_type = T_prompt THEN "prompt"
    ELSE "unsupported"

UnsupportedAction ==
    /\ pc = "dispatch"
    /\ UNCHANGED <<tvars, fvars>>
    /\ ActionKind(actions[index].type.val) = "unsupported"
    /\ Raise(Error("unsupported_type", index, actions[index].type.val, 0), trace)

\* The mutant of StoreAnswer: the table is replaced by the one new entry.
StoreAnswerOnly(vs, name, value) == [n \in {name} |-> value]

\* The mutant of StoreAnswer: a name that has a value keeps it.
StoreAnswerIfAbsent(vs, name, value) ==
    [n \in DOMAIN vs \cup {name} |-> IF n \in DOMAIN vs THEN vs[n] ELSE value]

\* variables[var_name] = value
StoreAnswer(vs, name, value) ==
    [n \in DOMAIN vs \cup {name} |-> IF n = name THEN value ELSE vs[n]]

_run_prompt_action ==
    /\ pc = "dispatch"
    /\ UNCHANGED <<tvars, fvars>>
    /\ ActionKind(actions[index].type.val) = "prompt"
    /\ LET action == actions[index]
       IN  IF ~NonEmptyStr(action.prompt)
           THEN Raise(Error("prompt_text", index, <<>>, 0), trace)
           ELSE IF ~NonEmptyStr(action.var)
           THEN Raise(Error("prompt_var", index, <<>>, 0), trace)
           ELSE \E value \in Answers \cup
                      (IF action.default = None THEN {} ELSE {StrOf(action.default)}) :
                  /\ variables' = StoreAnswer(variables, action.var.val, value)
                  /\ trace' = trace \o
                        << Event("prompt", index, 0, <<action.prompt.val>>, 0),
                           Event("stored", index, 0, <<action.var.val, value>>, 0) >>
                  /\ NextAction
                  /\ UNCHANGED <<recipe, actions, cmdSeq, cmdPos, error>>

\* _run_command_action up to its loop: the field check and the normalization.
_run_command_action ==
    /\ pc = "dispatch"
    /\ UNCHANGED <<tvars, fvars>>
    /\ ActionKind(actions[index].type.val) = "command"
    /\ LET action == actions[index]
       IN  IF action.command = None
           THEN Raise(Error("command_missing", index, <<>>, 0), trace)
           ELSE LET command_sequence == _coerce_command_value(action.command)
                IN  IF ~command_sequence.ok
                    THEN Raise(Error("command_value", 0, <<>>, 0), trace)
                    ELSE /\ cmdSeq' = command_sequence.seq
                         /\ cmdPos' = 1
                         /\ pc' = "command"
                         /\ UNCHANGED <<recipe, actions, index, variables, error, trace>>

\* [_substitute_variables(arg, variables) for arg in command_value]: the
\* first unknown name raises.
RECURSIVE SubstituteArgs(_, _)
SubstituteArgs(args, vs) ==
    IF args = <<>> THEN [ok |-> TRUE, argv |-> <<>>, name |-> <<>>]
    ELSE LET first == _substitute_variables(Head(args).val, vs)
         IN  IF ~first.ok THEN [ok |-> FALSE, argv |-> <<>>, name |-> first.name]
             ELSE LET rest == SubstituteArgs(Tail(args), vs)
                  IN  IF ~rest.ok THEN rest
                      ELSE [ok |-> TRUE, argv |-> <<first.text>> \o rest.argv,
                            name |-> <<>>]

\* The mutant of EntryFailed: only exit statuses above 1 stop the action.
EntryFailedAboveOne(returncode) == returncode > 1

\* completed.returncode != 0
EntryFailed(returncode) == returncode # 0

\* One iteration of the loop of _run_command_action.
RunCommandEntry ==
    /\ pc = "command"
    /\ UNCHANGED <<tvars, fvars>>
    /\ LET command_value == cmdSeq[cmdPos]
           resolved == IF IsStr(command_value)
                       THEN SubstituteArgs(<<command_value>>, variables)
                       ELSE SubstituteArgs(command_value.items, variables)
           how == IF IsStr(command_value) THEN "shell" ELSE "exec"
       IN  IF ~resolved.ok
           THEN Raise(Error("unknown_variable", 0, resolved.name, 0), trace)
           ELSE \E completed \in ProcessOutcomes :
                  IF completed.raised
                  THEN Raise(Error("command_oserror", index, <<>>, 0),
                             Append(trace, Event("oserror", index, cmdPos,
                                                 resolved.argv, 0)))
                  ELSE LET ran == Append(trace, Event(how, index, cmdPos,
                                                      resolved.argv, completed.code))
                       IN  IF EntryFailed(completed.code)
                           THEN Raise(Error("command_exit", index, <<>>,
                                            completed.code), ran)
                           ELSE IF cmdPos < Len(cmdSeq)
                           THEN /\ cmdPos' = cmdPos + 1
                                /\ trace' = ran
                                /\ UNCHANGED <<recipe, actions, pc, index,
                                               variables, cmdSeq, error>>
                           ELSE /\ cmdSeq' = <<>>
                                /\ cmdPos' = 0
                                /\ trace' = Append(ran,
                                       Event("completed", index, 0, <<>>, 0))
                                /\ NextAction
                                /\ UNCHANGED <<recipe, actions, variables, error>>

\* The end of _run_template_action: the rendered text is echoed or written.
WriteOutput(action, t) ==
    IF action.output = None
    THEN /\ trace' = Append(t, Event("echo_rendered", index, 0, <<>>, 0))
         /\ NextAction
         /\ UNCHANGED <<recipe, actions, variables, cmdSeq, cmdPos, error>>
    ELSE IF ~NonEmptyStr(action.output)
    THEN Raise(Error("output_invalid", index, <<>>, 0), t)
    ELSE LET resolved_path == _substitute_variables(action.output.val, variables)
         IN  IF ~resolved_path.ok
             THEN Raise(Error("unknown_variable", 0, resolved_path.name, 0), t)
             ELSE \E written \in BOOLEAN :
                    IF ~written
                    THEN Raise(Error("write_failed", 0, resolved_path.text, 0), t)
                    ELSE /\ trace' = t \o
                              << Event("write", index, 0, <<resolved_path.text>>, 0),
                                 Event("saved", index, 0, <<resolved_path.text>>, 0) >>
                         /\ NextAction
                         /\ UNCHANGED <<recipe, actions, variables, cmdSeq,
                                        cmdPos, error>>

\* _render_template_content as the engine sees it: the evaluation fails, a
\* command block fails, or the text is rendered.
RenderContent(action, t) ==
    \E outcome \in {"template_error", "block_failed", "rendered"} :
       IF outcome = "template_error"
       THEN Raise(Error("render_failed", 0, <<>>, 0), t)
       ELSE IF outcome = "block_failed"
       THEN Raise(Error("block_failed", 0, <<>>, 1),
                  Append(t, Event("block", index, 0, <<>>, 1)))
       ELSE WriteOutput(action, t)

\* _prompt_context_for_template as the engine sees it: the editor is opened
\* unless the seed is blank; it is closed unsaved, saved as invalid TOML, or
\* saved.
PromptContext(action, preset_context, t) ==
    \E toml_seed \in
          { _build_toml_template(TemplateStore[action.name.val], preset_context) } :
       IF NothingToCollect(toml_seed) THEN RenderContent(action, t)
       ELSE \E edit \in {"closed", "invalid", "saved"} :
              LET opened == Append(t, Event("edit", index, 0, <<>>, 0))
              IN  IF edit = "closed"
                  THEN Raise(Error("editor_closed", 0, <<>>, 0), opened)
                  ELSE IF edit = "invalid"
                  THEN Raise(Error("invalid_toml", 0, <<>>, 0), opened)
                  ELSE RenderContent(action, opened)

_run_template_action ==
    /\ pc = "dispatch"
    /\ UNCHANGED <<tvars, fvars>>
    /\ ActionKind(actions[index].type.val) = "template"
    /\ LET action == actions[index]
           template_name == action.name
           context_override == action.context
       IN  IF ~NonEmptyStr(template_name)
           THEN Raise(Error("template_name", index, <<>>, 0), trace)
           ELSE IF template_name.val \notin DOMAIN TemplateStore
           THEN Raise(Error("template_not_found", 0, template_name.val, 0), trace)
           ELSE LET t == Append(trace,
                            Event("rendering", index, 0, <<template_name.val>>, 0))
                IN  IF context_override = None THEN PromptContext(action, None, t)
                    ELSE IF ~IsTable(context_override)
                    THEN Raise(Error("context_type", index, <<>>, 0), t)
                    ELSE \E resolved \in
                               { _resolve_context_values(context_override, variables) } :
                           IF ~resolved.ok
                           THEN Raise(Error("unknown_variable", 0, resolved.name, 0), t)
                           ELSE \E expanded \in
                                      { _expand_dotted_context_keys(resolved.value) } :
                                  IF ~expanded.ok
                                  THEN Raise(Error(expanded.kind, 0, <<>>, 0), t)
                                  ELSE PromptContext(action,
                                           Table(expanded.items), t)

Next ==
    \/ _load_recipe_actions
    \/ _should_run_action
    \/ _run_template_action
    \/ _run_command_action
    \/ RunCommandEntry
    \/ _run_prompt_action
    \/ UnsupportedAction

Spec == Init /\ [][Next]_vars

----------------------------------------------------------------------------
(* The recipe engine: claims *)

\* The events of the trace that dispatching an action produces (a template
\* render, a command run, a prompt), as opposed to its gate check.
DispatchEvents ==
    {"rendering", "edit", "block", "echo_rendered", "write", "saved",
     "shell", "exec", "oserror", "completed", "prompt", "stored"}
RunEvents == {"shell", "exec", "oserror"}

\* The step is a gate confirmation of the current action answered "no".
Declined ==
    /\ pc = "gate"
    /\ Len(trace') > Len(trace)
    /\ trace'[Len(trace) + 1].ev = "confirm"
    /\ trace'[Len(trace) + 1].status = 0

\* C1: when the gate of action i is answered negatively the action is not
\* dispatched (the trace never holds a render, a command run or a prompt of
\* i), the variable table is the same after the step as before it, and
\* execution is at the gate check of action i+1, or done when i is the last.
C1_DeclinedGateSkips ==
    /\ [][Declined =>
            /\ variables' = variables
            /\ trace' = SubSeq(trace', 1, Len(trace)) \o
                   << Event("confirm", index, 0, trace'[Len(trace) + 1].argv, 0),
                      Event("skip", index, 0, <<>>, 0) >>
            /\ SubSeq(trace', 1, Len(trace)) = trace
            /\ error' = NoError
            /\ IF index < Len(actions)
               THEN pc' = "gate" /\ index' = index + 1
               ELSE pc' = "done"]_vars
    /\ [](\A p \in 1..Len(trace) :
            (trace[p].ev = "confirm" /\ trace[p].status = 0) =>
                \A q \in 1..Len(trace) :
                    trace[q].index = trace[p].index =>
                        trace[q].ev \notin DispatchEvents)

\* A gate was declined after a variable was stored, and the run went on to
\* its end.
C1_Witness ==
    /\ pc = "done"
    /\ DOMAIN variables # {}
    /\ \E p \in 1..Len(trace) :
         /\ trace[p].ev = "confirm" /\ trace[p].status = 0
         /\ trace[p].index = 2 /\ Len(actions) = 3
         /\ \E q \in 1..Len(trace) : trace[q].index = 3

\* The table the "stored" events of the trace build, last value first found
\* from the end.
LastStored(n) ==
    LET ps == { p \in 1..Len(trace) :
                  trace[p].ev = "stored" /\ trace[p].argv[1] = n }
    IN  trace[CHOOSE p \in ps : \A q \in ps : q <= p].argv[2]
StoredNames ==
    { trace[p].argv[1] : p \in { q \in 1..Len(trace) : trace[q].ev = "stored" } }

\* C2: when the gate check or the dispatch of action i fails, the run is over
\* (no step follows, so no action after i is gate-checked or dispatched: the
\* trace holds no event of an action after i), and the variable table is what
\* it was before the failing step, every entry stored by the earlier actions
\* with its value.
C2_FailureAbortsWithoutRollback ==
    /\ [][(error' # NoError) =>
            /\ pc' = "error"
            /\ variables' = variables
            /\ index' = index]_vars
    /\ [][pc # "error"]_vars
    /\ [](pc = "error" =>
            /\ \A p \in 1..Len(trace) : trace[p].index <= index
            /\ DOMAIN variables = StoredNames
            /\ \A n \in DOMAIN variables : variables[n] = LastStored(n))

\* The second of three actions failed after the first had stored a variable.
C2_Witness ==
    /\ pc = "error"
    /\ error.kind = "command_exit"
    /\ index = 2
    /\ Len(actions) = 3
    /\ DOMAIN variables # {}

\* C3: the variable table is empty when execution starts, no step removes a
\* key, and a step that changes the table is the dispatch of a prompt action.
C3_TableOnlyGrowsByPrompt ==
    /\ variables = EmptyTable
    /\ [][/\ DOMAIN variables \subseteq DOMAIN variables'
          /\ (variables' # variables =>
                /\ pc = "dispatch"
                /\ actions[index].type.val = T_prompt
                /\ Len(trace') = Len(trace) + 2
                /\ trace'[Len(trace) + 1].ev = "prompt"
                /\ \E n \in DOMAIN variables' :
                     \A m \in DOMAIN variables : m # n => variables'[m] = variables[m])
         ]_vars

\* Two prompt actions have stored two variables.
C3_Witness == DOMAIN variables = {<<"v">>, <<"w">>}

\* The recipe document is one _load_recipe_actions must refuse: no actions
\* list, an empty one, an entry that is no table, or an entry whose type is
\* missing, no string or the empty string.
Malformed ==
    \/ recipe.kind \in {"absent", "scalar"}
    \/ /\ recipe.kind = "list"
       /\ \/ recipe.list = <<>>
          \/ \E k \in 1..Len(recipe.list) :
               \/ ~recipe.list[k].table
               \/ recipe.list[k].type.tag = "none"
               \/ recipe.list[k].type.tag # "str"
               \/ recipe.list[k].type = Str(<<>>)

\* C4: for a malformed recipe document loading fails and no action is
\* executed: no gate is asked, no command is run, no variable is stored.
C4_MalformedRecipeRunsNothing ==
    Malformed =>
       /\ pc \in {"load", "error"}
       /\ trace = <<>>
       /\ variables = EmptyTable
       /\ actions = <<>>
       /\ pc = "error" => error.kind \in {"no_actions", "not_a_table", "missing_type"}

\* Loading failed on the last of three entries, the first two being valid.
C4_Witness ==
    /\ pc = "error"
    /\ error.kind = "missing_type"
    /\ error.index = 3
    /\ recipe.list[1] = PromptV

\* The gate of entry k of the recipe is present and is not a non-empty
\* string.
BadGate(k) ==
    /\ recipe.list[k].gate.tag # "none"
    /\ \/ recipe.list[k].gate.tag # "str"
       \/ recipe.list[k].gate.val = <<>>

\* C5 as claimed: a recipe with an action whose gate is present and is not a
\* non-empty string fails before any of its actions has run: nothing has been
\* asked, dispatched or stored.
C5_BadGateFailsAtParseTime ==
    (recipe.kind = "list" /\ \E k \in 1..Len(recipe.list) : BadGate(k)) =>
        /\ trace = <<>>
        /\ variables = EmptyTable
        /\ pc \in {"load", "error"}

\* C5 as amended: a gate that is present and is not a non-empty string fails
\* the recipe at the gate check of its own action, with that action's
\* one-based index: the action is neither confirmed nor dispatched and the
\* run is over, while what the earlier actions did and stored stands.
C5_BadGateFailsAtItsAction ==
    /\ [][(pc = "gate" /\ BadGate(index)) =>
            /\ pc' = "error"
            /\ error' = Error("gate_invalid", index, <<>>, 0)
            /\ trace' = trace
            /\ variables' = variables]_vars
    /\ [](pc \in {"dispatch", "command"} => ~BadGate(index))
    /\ []((pc = "error" /\ error.kind = "gate_invalid") =>
            /\ BadGate(error.index)
            /\ \A p \in 1..Len(trace) : trace[p].index < error.index
            /\ \A k \in 1..(error.index - 1) : ~BadGate(k))

\* The second action has a bad gate; the first has run and stored a variable.
C5_Witness ==
    /\ pc = "error"
    /\ error.kind = "gate_invalid"
    /\ error.index = 2
    /\ DOMAIN variables # {}
    /\ trace # <<>>

\* The type of the current action is none of template, command, prompt.
UnknownType(k) ==
    actions[k].type.val \notin {T_template, T_command, T_prompt}

\* C6 as claimed: execution never gets past an action of unknown type: it is
\* not skipped, the run does not end successfully, and an error at that
\* action carries the type value and the action's one-based index.
C6_UnknownTypeAlwaysFails ==
    \A k \in 1..Len(actions) :
        UnknownType(k) =>
            /\ pc # "done"
            /\ index <= k
            /\ (pc = "error" /\ index = k) =>
                   error = Error("unsupported_type", k, actions[k].type.val, 0)

\* C6 as amended: an action of unknown type that is dispatched (it has no
\* gate, or its gate is confirmed) fails the recipe at once with an error
\* carrying the type value and the action's one-based index, and the run is
\* over: no later action is gate-checked or dispatched.
C6_UnknownTypeFailsAtDispatch ==
    /\ [][(pc = "dispatch" /\ UnknownType(index)) =>
            /\ pc' = "error"
            /\ error' = Error("unsupported_type", index, actions[index].type.val, 0)
            /\ trace' = trace
            /\ variables' = variables
            /\ index' = index]_vars
    /\ [][pc # "error"]_vars
    /\ []((pc = "error" /\ error.kind = "unsupported_type") =>
            /\ UnknownType(error.index)
            /\ error.name = actions[error.index].type.val
            /\ error.name # <<>>
            /\ \A p \in 1..Len(trace) : trace[p].index <= error.index)

\* An action of unknown type, the second of three, was confirmed at its gate
\* and failed the recipe.
C6_Witness ==
    /\ pc = "error"
    /\ error = Error("unsupported_type", 2, T_deploy, 0)
    /\ Len(actions) = 3
    /\ \E p \in 1..Len(trace) :
         trace[p].ev = "confirm" /\ trace[p].index = 2 /\ trace[p].status = 1

\* The variable table as the "stored" events before position p built it.
TableAt(p) ==
    LET names == { trace[q].argv[1] :
                     q \in { r \in 1..(p - 1) : trace[r].ev = "stored" } }
    IN  [n \in names |->
            LET ps == { q \in 1..(p - 1) :
                          trace[q].ev = "stored" /\ trace[q].argv[1] = n }
            IN  trace[CHOOSE q \in ps : \A r \in ps : r <= q].argv[2]]

\* The positions of the trace that are runs of entries of action i.
Runs(i) == { p \in 1..Len(trace) : trace[p].ev \in RunEvents /\ trace[p].index = i }

\* C7: the entries of a command action are executed in sequence order (the
\* k-th run of the action is the k-th normalized entry, with the variables
\* stored so far substituted); an entry is executed only when the one before it has just
\* exited with status zero; the first non-zero exit status fails the action
\* with that status, and nothing is executed after it.
C7_CommandEntriesInOrderUntilFailure ==
    \A p \in 1..Len(trace) :
        trace[p].ev \in RunEvents =>
            LET i == trace[p].index
                k == trace[p].k
                entry == _coerce_command_value(actions[i].command).seq[k]
            IN  /\ k = Cardinality({ q \in Runs(i) : q <= p })
                /\ k <= Len(_coerce_command_value(actions[i].command).seq)
                /\ trace[p].argv =
                      (IF IsStr(entry)
                       THEN << _substitute_variables(entry.val, TableAt(p)).text >>
                       ELSE [j \in 1..Len(entry.items) |->
                               _substitute_variables(entry.items[j].val,
                                                     TableAt(p)).text])
                /\ k > 1 =>
                      /\ trace[p - 1].index = i
                      /\ trace[p - 1].k = k - 1
                      /\ trace[p - 1].ev \in {"shell", "exec"}
                      /\ trace[p - 1].status = 0
                /\ (trace[p].ev = "oserror" \/ trace[p].status # 0) =>
                      /\ p = Len(trace)
                      /\ pc = "error"
                      /\ index = i
                /\ (trace[p].ev # "oserror" /\ trace[p].status # 0) =>
                      error = Error("command_exit", i, <<>>, trace[p].status)

\* The first entry of a command action exited with zero and the second with
\* status 2.
C7_Witness ==
    /\ pc = "error"
    /\ error.kind = "command_exit"
    /\ error.code = 2
    /\ trace[Len(trace)].k = 2
    /\ trace[Len(trace)].ev = "shell"
    /\ trace[Len(trace) - 1].ev = "exec"

----------------------------------------------------------------------------
(* _coerce_command_value, one call *)

\* The elements a 'command' list may hold: strings, the integer, and lists
\* of those.
CommandElements ==
    LET scalars == { Str(<<"v">>), Str(<<"-">>), IntVal }
    IN  scalars \cup { List(l) :
                         l \in UNION { [1..n -> scalars] : n \in 0..MaxItems } }

CommandValues ==
    { Str(<<"v">>), Str(<<>>), IntVal, None, Table(<<>>) }
    \cup { List(l) : l \in UNION { [1..n -> CommandElements] : n \in 0..MaxItems } }

InitCoerce ==
    /\ Idle
    /\ NoRecipe
    /\ called = "_coerce_command_value"
    /\ call_args \in { <<v>> : v \in CommandValues }
    /\ returned = <<>>

CallCoerce ==
    /\ called = "_coerce_command_value"
    /\ returned = <<>>
    /\ returned' = << _coerce_command_value(call_args[1]) >>
    /\ UNCHANGED <<evars, tvars, called, call_args>>

NextCoerce == CallCoerce

SpecCoerce == InitCoerce /\ [][NextCoerce]_vars

\* How _run_command_action runs an entry of the normalized sequence.
EntryKind(entry) == IF IsStr(entry) THEN "shell-line" ELSE "argument-vector"

\* C8 as claimed: a string yields one shell-line entry; a non-empty list of
\* strings only yields one argument-vector entry, the whole list; a list with
\* at least one nested list, every element a string or a list of strings,
\* yields one entry per element in order, shell-line for a string and
\* argument-vector for a list; an empty top-level list, an element that is
\* neither, and a value that is no string and no list fail.
C8_CoerceAsClaimed ==
    returned # <<>> =>
        LET value == call_args[1]
            r == returned[1]
            StringList(x) == IsList(x) /\ AllStr(x.items)
        IN  /\ IsStr(value) =>
                r.ok /\ r.seq = <<value>> /\ EntryKind(r.seq[1]) = "shell-line"
            /\ (StringList(value) /\ value.items # <<>>) =>
                r.ok /\ r.seq = <<value>> /\ EntryKind(r.seq[1]) = "argument-vector"
            /\ (/\ IsList(value)
                /\ \E k \in 1..Len(value.items) : IsList(value.items[k])
                /\ \A k \in 1..Len(value.items) :
                       IsStr(value.items[k]) \/ StringList(value.items[k])) =>
                /\ r.ok
                /\ r.seq = value.items
            /\ (IsList(value) /\ value.items = <<>>) => ~r.ok
            /\ (/\ IsList(value)
                /\ \E k \in 1..Len(value.items) :
                       ~IsStr(value.items[k]) /\ ~StringList(value.items[k])) => ~r.ok
            /\ (~IsStr(value) /\ ~IsList(value)) => ~r.ok

\* C8 as amended: as claimed, but an element of the list that is a list
\* becomes an argument-vector entry only when it is a non-empty list of
\* strings; an element that is an empty list fails like an element that is
\* neither a string nor a list of strings.
C8_CoerceNormalizes ==
    returned # <<>> =>
        LET value == call_args[1]
            r == returned[1]
            StringList(x) == IsList(x) /\ AllStr(x.items)
            Definition(x) == IsStr(x) \/ (StringList(x) /\ x.items # <<>>)
        IN  /\ IsStr(value) =>
                r.ok /\ r.seq = <<value>> /\ EntryKind(r.seq[1]) = "shell-line"
            /\ (StringList(value) /\ value.items # <<>>) =>
                r.ok /\ r.seq = <<value>> /\ EntryKind(r.seq[1]) = "argument-vector"
            /\ (/\ IsList(value)
                /\ \E k \in 1..Len(value.items) : IsList(value.items[k])
                /\ \A k \in 1..Len(value.items) : Definition(value.items[k])) =>
                /\ r.ok
                /\ Len(r.seq) = Len(value.items)
                /\ \A k \in 1..Len(r.seq) :
                      /\ r.seq[k] = value.items[k]
                      /\ EntryKind(r.seq[k]) =
                            (IF IsStr(value.items[k]) THEN "shell-line"
                             ELSE "argument-vector")
            /\ (IsList(value) /\ value.items = <<>>) => ~r.ok
            /\ (/\ IsList(value)
                /\ \E k \in 1..Len(value.items) : ~Definition(value.items[k])) => ~r.ok
            /\ (~IsStr(value) /\ ~IsList(value)) => ~r.ok

\* A list of a nested argument vector and a string was normalized to two
\* entries.
C8_Witness ==
    /\ returned # <<>>
    /\ call_args[1] = List(<<List(<<Str(<<"v">>), Str(<<"-">>)>>), Str(<<"v">>)>>)
    /\ returned[1].ok
    /\ Len(returned[1].seq) = 2

----------------------------------------------------------------------------
(* _substitute_variables, one call *)

RECURSIVE Concat(_)
Concat(pieces) ==
    IF pieces = <<>> THEN <<>> ELSE Head(pieces) \o Concat(Tail(pieces))

\* The pieces the texts of the model are made of.
Pieces == { <<"$", "(", "v">>, <<"$">>, <<"(">>, <<")">>, <<"v">>, <<"1">> }

Texts == { Concat(ps) : ps \in UNION { [1..n -> Pieces] : n \in 0..MaxPieces } }

\* The variable tables of the model: empty, a value that reads as a
\* placeholder, and two names one a prefix of the other.
Tables ==
    { EmptyTable,
      [n \in { <<"v">> } |-> RefV],
      [n \in { <<"v">>, <<"v", "1">> } |-> IF n = <<"v">> THEN <<"1">> ELSE <<>>] }

InitSubstitute ==
    /\ Idle
    /\ NoRecipe
    /\ called = "_substitute_variables"
    /\ call_args \in { <<t, vs>> : t \in Texts, vs \in Tables }
    /\ returned = <<>>

CallSubstitute ==
    /\ called = "_substitute_variables"
    /\ returned = <<>>
    /\ returned' = << _substitute_variables(call_args[1], call_args[2]) >>
    /\ UNCHANGED <<evars, tvars, called, call_args>>

NextSubstitute == CallSubstitute

SpecSubstitute == InitSubstitute /\ [][NextSubstitute]_vars

\* text[i..e] is a placeholder: "$(", a letter or underscore, letters, digits
\* or underscores, ")".
IsPlaceholder(text, i, e) ==
    /\ 1 <= i /\ i + 3 <= e /\ e <= Len(text)
    /\ text[i] = "$"
    /\ text[i + 1] = "("
    /\ text[i + 2] \in Letters
    /\ \A j \in (i + 3)..(e - 1) : text[j] \in Letters \cup Digits
    /\ text[e] = ")"

PlaceholdersOf(text) ==
    { ie \in (1..Len(text)) \X (1..Len(text)) : IsPlaceholder(text, ie[1], ie[2]) }

PlaceholderName(text, ie) == SubSeq(text, ie[1] + 2, ie[2] - 1)

\* The text with each placeholder replaced by the value of its name and
\* every other character kept.
Replaced(text, vs) ==
    LET ph == PlaceholdersOf(text)
    IN  Concat([p \in 1..Len(text) |->
            IF \E ie \in ph : ie[1] = p
            THEN vs[PlaceholderName(text, CHOOSE ie \in ph : ie[1] = p)]
            ELSE IF \E ie \in ph : ie[1] < p /\ p <= ie[2]
            THEN <<>>
            ELSE <<text[p]>>])

\* C9: when every placeholder of the text names a key of the table, the
\* result is the text with each placeholder replaced by its key's value and
\* every other character unchanged; when some placeholder names no key of
\* the table, the call fails, returns no text, and its error names such a
\* placeholder's name.
C9_SubstituteReplacesOrFails ==
    returned # <<>> =>
        LET text == call_args[1]
            vs == call_args[2]
            r == returned[1]
            ph == PlaceholdersOf(text)
        IN  IF \A ie \in ph : PlaceholderName(text, ie) \in DOMAIN vs
            THEN r.ok /\ r.text = Replaced(text, vs)
            ELSE /\ ~r.ok
                 /\ r.text = <<>>
                 /\ r.name \notin DOMAIN vs
                 /\ \E ie \in ph : PlaceholderName(text, ie) = r.name

\* A text with two placeholders and other characters around them was
\* substituted.
C9_Witness ==
    /\ returned # <<>>
    /\ call_args[1] = <<"(">> \o RefV \o RefV
    /\ call_args[2] = [n \in { <<"v">> } |-> RefV]
    /\ returned[1].ok
    /\ returned[1].text = <<"(">> \o RefV \o RefV

\* A text with a known and an unknown placeholder failed on the unknown name.
C9_WitnessUnknown ==
    /\ returned # <<>>
    /\ call_args[1] = RefV \o <<"$", "(", "v", "1", ")">>
    /\ ~returned[1].ok
    /\ returned[1].name = <<"v", "1">>

----------------------------------------------------------------------------
(* _prompt_context_for_template on one template, step by step: the parse,  *)
(* the visit of the inspector node by node, the skeleton, the editor.      *)

MaxDepth == 2
MaxNodes == 2

\* The expressions a template of the model prints: names, attribute and
\* literal-key accesses, an access of an access, a computed index, an
\* attribute of the loop metadata, a literal.
Expressions ==
    { Name(<<"v">>),
      Getattr(Name(<<"v">>), <<"a">>),
      Getattr(Name(<<"w">>), <<"a">>),
      Getitem(Name(<<"v">>), Const(Str(<<"b">>))),
      Getitem(Name(<<"v">>), Name(<<"w">>)),
      Getattr(Getattr(Name(<<"w">>), <<"a">>), <<"b">>),
      Getattr(Name(N_loop), <<"a">>),
      Const(Str(<<"1">>)) }

\* Template text and {{ expression }}.
Leaves == { TemplateData } \cup { Output(e) : e \in Expressions }

\* {% for target in iter %} body {% else %} else_ {% endfor %}, nested to
\* the given depth; the iterable is a name, an attribute of a name or a
\* literal list.
RECURSIVE Statements(_)
Statements(depth) ==
    IF depth = 0 THEN Leaves
    ELSE LET inner == Statements(depth - 1)
         IN  inner \cup
             { For(Name(target), iter, <<body>>, else_) :
                 target \in { <<"v">>, <<"w">> },
                 iter \in { Name(<<"v">>), Name(<<"w">>),
                            Getattr(Name(<<"v">>), <<"a">>),
                            Tuple(<<Const(Str(<<"1">>))>>) },
                 body \in inner,
                 else_ \in { <<>>, <<Output(Getattr(Name(<<"v">>), <<"a">>))>> } }

\* Two loops that bind the same name, one inside the other, around a loop
\* whose iterable is an attribute of that name:
\* {% for v in .. %}{% for v in .. %}{% for w in v.a %}..{% endfor %}..
DeepTemplates ==
    { Template(<<For(Name(<<"v">>), outer,
                     <<For(Name(<<"v">>), inner,
                           <<For(Name(<<"w">>), Getattr(Name(<<"v">>), <<"a">>),
                                 <<leaf>>, <<>>)>>,
                           <<>>)>>,
                     <<>>)>>) :
        outer \in { Name(<<"w">>), Tuple(<<Const(Str(<<"1">>))>>) },
        inner \in { Name(<<"v">>), Name(<<"w">>), Tuple(<<Const(Str(<<"1">>))>>) },
        leaf \in { TemplateData, Output(Getattr(Name(<<"v">>), <<"b">>)) } }

\* A loop followed by an expression: {% for .. %}..{% endfor %}{{ v.a }}.
SequelTemplates ==
    { Template(<<loop, Output(Getattr(Name(n), <<"a">>))>>) :
        loop \in Statements(1) \ Leaves, n \in { <<"v">>, <<"w">> } }

\* env.parse(source): one statement of any depth, a run of leaves, one of
\* the deeper nests, or a loop and what follows it.
Templates ==
    { Template(<<s>>) : s \in Statements(MaxDepth) }
    \cup { Template(b) : b \in UNION { [1..n -> Leaves] : n \in 0..MaxNodes } }
    \cup DeepTemplates
    \cup SequelTemplates

\* The preset the caller hands over: none, an empty one, one value.
Presets == { None, Table(<<>>), Table(<<Entry(<<"v">>, Str(<<"1">>))>>) }

\* What tomllib.loads reads from the file the user saved.
SavedContexts == { Table(<<>>), Table(<<Entry(<<"v">>, Str(<<"w">>))>>) }

Context(how, value) == [how |-> how, value |-> value]

InitSkeleton ==
    /\ NoRecipe
    /\ NoCall
    /\ template_content \in Templates
    /\ given_preset \in Presets
    /\ tpc = "parse"
    /\ visitor = NewInspector(<<>>)
    /\ seed = EmptyText
    /\ context_data = Context("none", None)

\* inspector = TemplateIntrospector(); inspector.visit(parsed) is entered.
StartVisit ==
    /\ tpc = "parse"
    /\ visitor' = NewInspector(<<Visit(template_content)>>)
    /\ tpc' = "visit"
    /\ UNCHANGED <<evars, fvars, template_content, given_preset, seed, context_data>>

\* The node the visit is at.
AtNode(kinds) ==
    /\ tpc = "visit"
    /\ visitor.agenda # <<>>
    /\ Head(visitor.agenda).op = "visit"
    /\ Head(visitor.agenda).node.k \in kinds

StepVisitFor ==
    /\ AtNode({"For"})
    /\ visitor' = visit_For(visitor, Head(visitor.agenda).node)
    /\ UNCHANGED <<evars, fvars, template_content, given_preset, tpc, seed,
                   context_data>>

StepLeaveFor ==
    /\ tpc = "visit"
    /\ visitor.agenda # <<>>
    /\ Head(visitor.agenda).op = "leave"
    /\ visitor' = LeaveFor(visitor)
    /\ UNCHANGED <<evars, fvars, template_content, given_preset, tpc, seed,
                   context_data>>

StepVisitAccess ==
    /\ AtNode({"Getattr", "Getitem"})
    /\ visitor' = VisitAccess(visitor, Head(visitor.agenda).node)
    /\ UNCHANGED <<evars, fvars, template_content, given_preset, tpc, seed,
                   context_data>>

StepGenericVisit ==
    /\ AtNode({"Name", "Const", "Tuple", "TemplateData", "Output", "Template"})
    /\ visitor' = generic_visit(visitor, Head(visitor.agenda).node)
    /\ UNCHANGED <<evars, fvars, template_content, given_preset, tpc, seed,
                   context_data>>

\* The rest of _build_toml_template once the visit has returned.
StepBuild ==
    /\ tpc = "visit"
    /\ visitor.agenda = <<>>
    /\ seed' = BuildFrom(visitor,
                         Sorted(find_undeclared_variables(template_content)),
                         given_preset)
    /\ tpc' = "prompt"
    /\ UNCHANGED <<evars, fvars, template_content, given_preset, visitor,
                   context_data>>

\* _prompt_context_for_template after the seed is built: `preset or {}` when
\* the seed is blank, else the editor, which is closed unsaved, saved as
\* invalid TOML, or saved.
StepPromptContext ==
    /\ tpc = "prompt"
    /\ IF NothingToCollect(seed)
       THEN context_data' =
                Context("preset",
                        IF Truthy(given_preset) THEN given_preset ELSE Table(<<>>))
       ELSE \/ context_data' = Context("editor_closed", None)
            \/ context_data' = Context("invalid_toml", None)
            \/ \E saved \in SavedContexts :
                  context_data' = Context("edited", saved)
    /\ tpc' = "done"
    /\ UNCHANGED <<evars, fvars, template_content, given_preset, visitor, seed>>

NextSkeleton ==
    \/ StartVisit
    \/ StepVisitFor
    \/ StepLeaveFor
    \/ StepVisitAccess
    \/ StepGenericVisit
    \/ StepBuild
    \/ StepPromptContext

SpecSkeleton == InitSkeleton /\ [][NextSkeleton]_vars

\* The stepwise visit ends where inspector.visit(parsed) run at once ends.
VisitAgrees ==
    tpc \in {"prompt", "done"} => visitor = inspector_visit(template_content)

\* C10: for every template whose free-variable set is empty,
\* _build_toml_template returns the empty string, and
\* _prompt_context_for_template returns the supplied preset (or an empty
\* context) without opening the editor.
C10_EmptyFreeSetSkipsEditor ==
    find_undeclared_variables(template_content) = {} =>
        /\ tpc \in {"prompt", "done"} => seed = EmptyText
        /\ tpc = "done" =>
              context_data =
                  Context("preset",
                          IF Truthy(given_preset) THEN given_preset
                          ELSE Table(<<>>))

----------------------------------------------------------------------------
(* Reading the skeleton text back. *)

\* The free variables of the template being classified.
FreeVariables == find_undeclared_variables(template_content)

\* The skeleton is built and no preset was merged into it.
BuiltWithoutPreset == tpc \in {"prompt", "done"} /\ ~Truthy(given_preset)

\* The lines of the seed of one kind at one path.
SeedLines(kind, path) ==
    { j \in 1..Len(seed.lines) :
        seed.lines[j].kind = kind /\ seed.lines[j].path = path }

\* The keys of the rows of the array of tables X, row by row: each header
\* [[X]] with the pairs that follow it up to the next header or blank line.
RECURSIVE FieldsFrom(_, _)
FieldsFrom(j, path) ==
    IF j > Len(seed.lines) \/ seed.lines[j].kind # "pair"
       \/ SubSeq(seed.lines[j].path, 1, Len(path)) # path
    THEN {}
    ELSE {seed.lines[j].path[Len(path) + 1]} \cup FieldsFrom(j + 1, path)

\* C11: in the skeleton built without a preset, every free variable that is
\* a key of list_fields appears exactly once, as a one-element array of
\* tables, and never as a scalar slot or a nested table, also when the name
\* is a key of nested_fields as well.
C11_ListFieldIsArrayOnly ==
    BuiltWithoutPreset =>
        \A X \in FreeVariables \cap DOMAIN visitor.list_fields :
            /\ Cardinality(SeedLines("aot_header", <<X>>)) = 1
            /\ SeedLines("pair", <<X>>) = {}
            /\ SeedLines("table_header", <<X>>) = {}

\* A free variable is in both maps and the skeleton is built.
C11_Witness ==
    /\ tpc = "done"
    /\ ~Truthy(given_preset)
    /\ \E X \in FreeVariables :
          /\ X \in DOMAIN visitor.list_fields
          /\ X \in DOMAIN visitor.nested_fields
          /\ Cardinality(SeedLines("aot_header", <<X>>)) = 1

----------------------------------------------------------------------------
(* The accesses of a template, read off its syntax tree. *)

\* Every {% for %} of the tree, at any depth.
RECURSIVE LoopsOf(_)
RECURSIVE LoopsOfAll(_)
LoopsOfAll(ns) ==
    IF ns = <<>> THEN {} ELSE LoopsOf(Head(ns)) \cup LoopsOfAll(Tail(ns))

LoopsOf(node) ==
    (IF node.k = "For" THEN {node} ELSE {}) \cup LoopsOfAll(Children(node))

\* The field an access expression reads through the name t: the second
\* segment of its path when the path starts at t.
FieldThrough(node, t) ==
    IF node.k \in {"Getattr", "Getitem"}
       /\ Len(_flatten_access(node)) >= 2 /\ _flatten_access(node)[1] = t
    THEN {_flatten_access(node)[2]}
    ELSE {}

\* The fields read through t anywhere in the nodes, where t still is the
\* binding it was outside: not in the body of an inner loop that binds t
\* again.  The iterable and the else clause of an inner loop are outside
\* that loop's binding.
RECURSIVE FieldsRead(_, _)
RECURSIVE FieldsReadAll(_, _)
FieldsReadAll(ns, t) ==
    IF ns = <<>> THEN {}
    ELSE FieldsRead(Head(ns), t) \cup FieldsReadAll(Tail(ns), t)

FieldsRead(node, t) ==
    IF node.k = "For"
    THEN FieldsRead(node.iter, t)
         \cup (IF t \in _extract_target_names(node.target) THEN {}
               ELSE FieldsReadAll(node.body, t))
         \cup FieldsReadAll(node.else_, t)
    ELSE FieldThrough(node, t) \cup FieldsReadAll(Children(node), t)

\* C12: for every loop whose iterable is a bare name X and whose target
\* binds t, each access t.f in the loop body (t not bound again by an inner
\* loop) puts f into list_fields[X], the accesses of several loops over X
\* adding up in the one set; and the skeleton has one array of tables X
\* whose single table has exactly the fields of list_fields[X].
C12_LoopAccessesBecomeArrayFields ==
    BuiltWithoutPreset =>
        /\ \A loop \in LoopsOf(template_content) :
              loop.iter.k = "Name" =>
                  \A t \in _extract_target_names(loop.target) :
                      \A f \in FieldsReadAll(loop.body, t) :
                          /\ loop.iter.name \in DOMAIN visitor.list_fields
                          /\ f \in visitor.list_fields[loop.iter.name]
        /\ \A X \in DOMAIN visitor.list_fields :
              /\ Cardinality(SeedLines("aot_header", <<X>>)) = 1
              /\ \A j \in SeedLines("aot_header", <<X>>) :
                    FieldsFrom(j + 1, <<X>>) = visitor.list_fields[X]

\* The (base, field) pairs of the access expressions of the nodes whose
\* path has at least two segments and whose base no enclosing loop binds at
\* that point; `bound` holds the names the enclosing loops bind.  A loop
\* binds its targets and "loop" in its body; its iterable and its else
\* clause are outside.
RECURSIVE GlobalAccesses(_, _)
RECURSIVE GlobalAccessesAll(_, _)
GlobalAccessesAll(ns, bound) ==
    IF ns = <<>> THEN {}
    ELSE GlobalAccesses(Head(ns), bound) \cup GlobalAccessesAll(Tail(ns), bound)

GlobalAccesses(node, bound) ==
    IF node.k = "For"
    THEN GlobalAccesses(node.iter, bound)
         \cup GlobalAccessesAll(node.body,
                  bound \cup _extract_target_names(node.target) \cup {N_loop})
         \cup GlobalAccessesAll(node.else_, bound)
    ELSE (IF node.k \in {"Getattr", "Getitem"}
             /\ Len(_flatten_access(node)) >= 2
             /\ _flatten_access(node)[1] \notin bound
          THEN { <<_flatten_access(node)[1], _flatten_access(node)[2]>> }
          ELSE {})
         \cup GlobalAccessesAll(Children(node), bound)

\* C13: for every attribute or indexed access of the template, wherever it
\* occurs (top level, a loop body, a loop's else clause, a loop's iterable),
\* whose path has at least two segments and whose base is not bound by an
\* enclosing loop there, the second segment is in nested_fields[base] once
\* the classification is done.
C13_EveryGlobalAccessIsNested ==
    tpc \in {"prompt", "done"} =>
        \A access \in GlobalAccesses(template_content, {}) :
            /\ access[1] \in DOMAIN visitor.nested_fields
            /\ access[2] \in visitor.nested_fields[access[1]]

\* The attributes observed for the elements of the iterable X.
ObservedAttributes(X) ==
    IF X \in DOMAIN visitor.list_fields THEN visitor.list_fields[X] ELSE {}

\* C18: a free variable that is the bare-name iterable of a loop and for
\* which no attribute of the loop element was observed is emitted in the
\* skeleton as a one-element array of tables whose table has the single
\* field "value"; every array of tables of the skeleton has a non-empty
\* field set, the observed attributes, or {"value"} when there are none.
C18_BareIterableGetsValueField ==
    BuiltWithoutPreset =>
        /\ \A loop \in LoopsOf(template_content) :
              (/\ loop.iter.k = "Name"
               /\ loop.iter.name \in FreeVariables
               /\ ObservedAttributes(loop.iter.name) = {})
              => /\ Cardinality(SeedLines("aot_header", <<loop.iter.name>>)) = 1
                 /\ \A j \in SeedLines("aot_header", <<loop.iter.name>>) :
                       FieldsFrom(j + 1, <<loop.iter.name>>) = {N_value}
        /\ \A j \in 1..Len(seed.lines) :
              seed.lines[j].kind = "aot_header" =>
                  LET X == seed.lines[j].path[1]
                  IN  /\ FieldsFrom(j + 1, <<X>>) # {}
                      /\ FieldsFrom(j + 1, <<X>>) =
                             (IF ObservedAttributes(X) # {}
                              THEN ObservedAttributes(X) ELSE {N_value})

----------------------------------------------------------------------------
(* _substitute_command_blocks on one rendered text *)

MaxBlockPieces == 4

\* COMMAND_PATTERN = \{>(.+?)<\} with DOTALL, tried at position i: the index
\* of the "<" of the nearest closing marker that leaves at least one
\* character in the group, or 0 when there is no match at i.
RECURSIVE ClosingFrom(_, _)
ClosingFrom(text, k) ==
    IF k + 1 > Len(text) THEN 0
    ELSE IF text[k] = "<" /\ text[k + 1] = "}" THEN k
    ELSE ClosingFrom(text, k + 1)

CommandMatchEnd(text, i) ==
    IF i + 1 <= Len(text) /\ text[i] = "{" /\ text[i + 1] = ">"
    THEN ClosingFrom(text, i + 3)
    ELSE 0

\* str.strip() on characters: the blanks at both ends go.
RECURSIVE LeftStrip(_)
LeftStrip(text) ==
    IF text # <<>> /\ Head(text) = " " THEN LeftStrip(Tail(text)) ELSE text

StripBlanks(text) == Reversed(LeftStrip(Reversed(LeftStrip(text))))

\* stdout.rstrip("\n")
RECURSIVE RightStripNewlines(_)
RightStripNewlines(text) ==
    IF text # <<>> /\ text[Len(text)] = "\n"
    THEN RightStripNewlines(SubSeq(text, 1, Len(text) - 1))
    ELSE text

BlocksOk(text) == [ok |-> TRUE, text |-> text, kind |-> "none", command |-> <<>>]
BlocksFail(kind, command) ==
    [ok |-> FALSE, text |-> <<>>, kind |-> kind, command |-> command]

\* What subprocess.run does with a command: it cannot be started, or it
\* exits with a status and its output.
Completed(returncode, stdout) ==
    [started |-> TRUE, returncode |-> returncode, stdout |-> stdout]
NotStarted == [started |-> FALSE, returncode |-> 0, stdout |-> <<>>]
ShellOutcomes ==
    { NotStarted, Completed(1, <<>>), Completed(0, <<"o", "\n">>),
      Completed(0, <<>>) }

\* (variant) _run without the check of the exit status.
RunBlockIgnoringExit(group, completed) ==
    LET command == StripBlanks(group)
    IN  IF command = <<>> THEN BlocksFail("empty_block", <<>>)
        ELSE IF ~completed.started THEN BlocksFail("run_failed", command)
        ELSE BlocksOk(RightStripNewlines(completed.stdout))

\* _run on the group of one match, the process ending as `completed`.
RunBlock(group, completed) ==
    LET command == StripBlanks(group)
    IN  IF command = <<>> THEN BlocksFail("empty_block", <<>>)
        ELSE IF ~completed.started THEN BlocksFail("run_failed", command)
        ELSE IF completed.returncode # 0 THEN BlocksFail("exit_code", command)
        ELSE BlocksOk(RightStripNewlines(completed.stdout))

\* COMMAND_PATTERN.sub(_run, content) from position i on, `done` being the
\* text written so far and `outcomes` what the processes still to run do.
RECURSIVE SubFrom(_, _, _, _)
SubFrom(text, i, done, outcomes) ==
    IF i > Len(text) THEN BlocksOk(done)
    ELSE LET k == CommandMatchEnd(text, i)
         IN  IF k = 0 THEN SubFrom(text, i + 1, Append(done, text[i]), outcomes)
             ELSE LET r == RunBlock(SubSeq(text, i + 2, k - 1), Head(outcomes))
                  IN  IF ~r.ok THEN r
                      ELSE SubFrom(text, k + 2, done \o r.text, Tail(outcomes))

_substitute_command_blocks(content, outcomes) == SubFrom(content, 1, <<>>, outcomes)

\* The pieces the rendered texts of the model are made of.
BlockPieces == { <<"{", ">">>, <<"<", "}">>, <<" ">>, <<"l">>, <<"}">> }

RenderedTexts ==
    { Concat(ps) : ps \in UNION { [1..n -> BlockPieces] : n \in 0..MaxBlockPieces } }

InitBlocks ==
    /\ Idle
    /\ NoRecipe
    /\ called = "_substitute_command_blocks"
    /\ call_args \in { <<t>> : t \in RenderedTexts }
    /\ returned = <<>>

\* A text of n pieces holds fewer than n markers.
CallBlocks ==
    /\ called = "_substitute_command_blocks"
    /\ returned = <<>>
    /\ \E outcomes \in [1..MaxBlockPieces -> ShellOutcomes] :
          returned' = << _substitute_command_blocks(call_args[1], outcomes) >>
    /\ UNCHANGED <<evars, tvars, called, call_args>>

NextBlocks == CallBlocks

SpecBlocks == InitBlocks /\ [][NextBlocks]_vars

\* The text holds the pattern at some position.
RECURSIVE Holds_at(_, _, _)
Holds_at(text, pattern, i) ==
    /\ i + Len(pattern) - 1 <= Len(text)
    /\ \/ SubSeq(text, i, i + Len(pattern) - 1) = pattern
       \/ Holds_at(text, pattern, i + 1)

EmptyMarker == <<"{", ">", "<", "}">>

\* C14: a rendered text that holds the empty command marker, "{><}" with
\* nothing between the opening and the closing marker, makes
\* _substitute_command_blocks fail; the marker is never left in the output
\* or taken as plain text.
C14_EmptyMarkerFails ==
    (called = "_substitute_command_blocks" /\ returned # <<>>
        /\ Holds_at(call_args[1], EmptyMarker, 1))
    => ~returned[1].ok

\* A marker that holds only blanks does fail, with the empty-block error.
BlankMarkerFails ==
    (called = "_substitute_command_blocks" /\ returned # <<>>
        /\ call_args[1] = <<"{", ">", " ", "<", "}">>)
    => (~returned[1].ok /\ returned[1].kind = "empty_block")

----------------------------------------------------------------------------
(* _apply_preset_to_doc on one skeleton and one preset *)

MaxPresetKeys == 2

\* The documents _build_toml_template hands to _apply_preset_to_doc.
SkeletonDocuments ==
    { SkeletonDocument(inspector_visit(t), Sorted(find_undeclared_variables(t))) :
        t \in Templates }

\* The values a preset holds: a string, mappings (one of them nested),
\* a list of mappings, a list of strings.
PresetValues ==
    { Str(<<"1">>),
      Table(<<Entry(<<"a">>, Str(<<"1">>))>>),
      Table(<<Entry(<<"c">>, Str(<<"1">>))>>),
      Table(<<Entry(<<"a">>, Table(<<Entry(<<"b">>, Str(<<"1">>))>>))>>),
      List(<<Table(<<Entry(<<"a">>, Str(<<"1">>))>>)>>),
      List(<<Str(<<"1">>)>>) }

PresetKeys == { <<"v">>, <<"w">>, <<"a">> }

\* The presets: mappings of up to MaxPresetKeys distinct keys, in any order.
PresetTables ==
    { [j \in 1..n |-> Entry(ks[j], vs[j])] :
        <<n, ks, vs>> \in
          UNION { { <<n, ks, vs>> :
                      ks \in { f \in [1..n -> PresetKeys] :
                                 \A i, j \in 1..n : i # j => f[i] # f[j] },
                      vs \in [1..n -> PresetValues] } :
                  n \in 0..MaxPresetKeys } }

InitPreset ==
    /\ Idle
    /\ NoRecipe
    /\ called = "_apply_preset_to_doc"
    /\ call_args \in { <<doc, ps>> : doc \in SkeletonDocuments, ps \in PresetTables }
    /\ returned = <<>>

CallPreset ==
    /\ called = "_apply_preset_to_doc"
    /\ returned = <<>>
    /\ returned' = << _apply_preset_to_doc(call_args[1], call_args[2]) >>
    /\ UNCHANGED <<evars, tvars, called, call_args>>

NextPreset == CallPreset

SpecPreset == InitPreset /\ [][NextPreset]_vars

\* The keys of the items of a mapping.
KeysOf(items) ==
    { items[j].key : j \in { i \in 1..Len(items) : items[i].tag # "comment" } }

\* The merge as the claim has it, of the preset mapping `given` into the
\* table `before`, read off the table `after` key by key: a key the preset
\* does not name keeps its value; a key the preset gives a plain value has
\* that value; a key the preset gives a mapping, where a table was, is
\* merged in the same way; no other key appears.
RECURSIVE MergedInto(_, _, _)
MergedInto(before, given, after) ==
    /\ KeysOf(after) = KeysOf(before) \cup KeysOf(given)
    /\ \A k \in KeysOf(before) \ KeysOf(given) : Get(after, k) = Get(before, k)
    /\ \A k \in KeysOf(given) :
          IF IsStr(Get(given, k)) THEN Get(after, k) = Get(given, k)
          ELSE IF IsTable(Get(given, k)) /\ IsTable(Get(before, k))
          THEN /\ IsTable(Get(after, k))
               /\ MergedInto(Get(before, k).items, Get(given, k).items,
                             Get(after, k).items)
          ELSE TRUE

\* C15: _apply_preset_to_doc with a preset whose value at key K is a mapping
\* and a skeleton that already has a table at K sets exactly the fields the
\* preset mapping names (recursively) and leaves every other field of that
\* table, and every top-level key the preset does not name, with its
\* previous value.
C15_PresetMergeKeepsOtherFields ==
    (called = "_apply_preset_to_doc" /\ returned # <<>>)
    => MergedInto(call_args[1], call_args[2], returned[1])

\* A preset names one field of a table of two: that field is set, the other
\* is still the empty slot.
C15_Witness ==
    /\ called = "_apply_preset_to_doc"
    /\ returned # <<>>
    /\ Get(call_args[2], <<"v">>) = Table(<<Entry(<<"a">>, Str(<<"1">>))>>)
    /\ IsTable(Get(call_args[1], <<"v">>))
    /\ KeysOf(Get(call_args[1], <<"v">>).items) = { <<"a">>, <<"b">> }
    /\ Get(Get(returned[1], <<"v">>).items, <<"a">>) = Str(<<"1">>)
    /\ Get(Get(returned[1], <<"v">>).items, <<"b">>) = Str(<<>>)

----------------------------------------------------------------------------
(* _expand_dotted_context_keys on one context *)

MaxContextKeys == 2

ContextKeys == { <<"x">>, <<"x", ".", "a">>, <<"x", ".", "a", ".", "b">> }

\* The values of a context: a string, and mappings with a plain key, a
\* nested mapping, a dotted key.
ContextValues ==
    { Str(<<"1">>),
      Table(<<Entry(<<"a">>, Str(<<"1">>))>>),
      Table(<<Entry(<<"a">>, Table(<<Entry(<<"b">>, Str(<<"1">>))>>))>>),
      Table(<<Entry(<<"a", ".", "b">>, Str(<<"1">>))>>) }

\* The contexts: mappings of up to MaxContextKeys distinct keys, in any order.
Contexts ==
    { [j \in 1..n |-> Entry(ks[j], vs[j])] :
        <<n, ks, vs>> \in
          UNION { { <<n, ks, vs>> :
                      ks \in { f \in [1..n -> ContextKeys] :
                                 \A i, j \in 1..n : i # j => f[i] # f[j] },
                      vs \in [1..n -> ContextValues] } :
                  n \in 0..MaxContextKeys } }

InitExpand ==
    /\ Idle
    /\ NoRecipe
    /\ called = "_expand_dotted_context_keys"
    /\ call_args \in { <<Table(data)>> : data \in Contexts }
    /\ returned = <<>>

CallExpand ==
    /\ called = "_expand_dotted_context_keys"
    /\ returned = <<>>
    /\ returned' = << _expand_dotted_context_keys(call_args[1]) >>
    /\ UNCHANGED <<evars, tvars, called, call_args>>

NextExpand == CallExpand

SpecExpand == InitExpand /\ [][NextExpand]_vars

\* How the context uses its key paths: every path a key spells, from the
\* top, with "scalar" when a plain value sits there and "table" when a
\* mapping sits there or a longer path goes through it.
RECURSIVE PathUses(_, _)
PathUses(items, prefix) ==
    UNION { LET path == prefix \o Split(items[j].key)
                value == [items[j] EXCEPT !.key = <<>>]
            IN  { <<SubSeq(path, 1, n), "table">> : n \in (Len(prefix) + 1)..(Len(path) - 1) }
                \cup (IF IsTable(value)
                      THEN { <<path, "table">> } \cup PathUses(value.items, path)
                      ELSE { <<path, "scalar">> })
            : j \in 1..Len(items) }

\* Some key path is used both as a leaf scalar and as a nested table.
Conflicting(data) ==
    \E use \in PathUses(data, <<>>) :
        use[2] = "scalar" /\ <<use[1], "table">> \in PathUses(data, <<>>)

\* C16: _expand_dotted_context_keys fails for every context, in whatever
\* key order, in which some key path is used both as a leaf scalar and as a
\* nested table; it never silently replaces one by the other.
C16_ConflictAlwaysFails ==
    (called = "_expand_dotted_context_keys" /\ returned # <<>>
        /\ Conflicting(call_args[1].items))
    => ~returned[1].ok

----------------------------------------------------------------------------
(* The recipe engine: what a failure carries, what a prompt changes, how   *)
(* the run ends.                                                            *)

\* C17: every failure raised while the engine is processing action i (gate
\* validation, substitution of an unknown name in a gate or a field,
\* template not found, render failure, command failure, unknown type)
\* carries the one-based index i of that action in its error.
C17_EveryFailureCarriesIndex ==
    (pc = "error" /\ index >= 1) => error.index = index

\* Every text the engine has substituted -- a gate, the entry of a command
\* action, an output path -- reads as its source with the values stored
\* before that point: the latest answer of each prompt variable.
SubstitutionsSeeStoredAnswers ==
    \A p \in 1..Len(trace) :
        LET i == trace[p].index
        IN  /\ trace[p].ev = "confirm" =>
                  trace[p].argv =
                      << _substitute_variables(actions[i].gate.val, TableAt(p)).text >>
            /\ trace[p].ev \in RunEvents =>
                  LET entry == _coerce_command_value(actions[i].command).seq[trace[p].k]
                  IN  trace[p].argv =
                        (IF IsStr(entry)
                         THEN << _substitute_variables(entry.val, TableAt(p)).text >>
                         ELSE [j \in 1..Len(entry.items) |->
                                 _substitute_variables(entry.items[j].val,
                                                       TableAt(p)).text])
            /\ trace[p].ev \in {"write", "saved"} =>
                  trace[p].argv =
                      << _substitute_variables(actions[i].output.val, TableAt(p)).text >>

\* C19: after a prompt action with variable name v collects the answer a,
\* the table maps v to a (whatever v held before) and every other entry is
\* as it was; every gate, command string, argument and output path a later
\* action substitutes sees a for $(v), and what earlier actions substituted
\* stays as it was.
C19_PromptAnswerReachesLaterActions ==
    [][ /\ (Len(trace') > Len(trace) /\ trace'[Len(trace')].ev = "stored") =>
              LET v == trace'[Len(trace')].argv[1]
                  a == trace'[Len(trace')].argv[2]
              IN  /\ DOMAIN variables' = DOMAIN variables \cup {v}
                  /\ variables'[v] = a
                  /\ \A n \in DOMAIN variables \ {v} : variables'[n] = variables[n]
        /\ Len(trace') >= Len(trace)
        /\ SubSeq(trace', 1, Len(trace)) = trace
        /\ SubstitutionsSeeStoredAnswers'
      ]_vars

\* Two prompts gave v first "1" and then "w", and the command run after
\* them got "w" for $(v).
C19_Witness ==
    /\ Len(trace) >= 5
    /\ \E p, q, r \in 1..Len(trace) :
          /\ p < q /\ q < r
          /\ trace[p].ev = "stored" /\ trace[p].argv = << <<"v">>, <<"1">> >>
          /\ trace[q].ev = "stored" /\ trace[q].argv = << <<"v">>, <<"w">> >>
          /\ trace[r].ev = "shell" /\ trace[r].argv = << <<"-", "w">> >>
    /\ variables[<<"v">>] = <<"w">>

\* The engine with its scheduling: one thread runs the loop, and every call
\* of a collaborator (confirmation, prompt, editor, process, file) returns,
\* so a step that can be taken is taken.
SpecFair == Init /\ [][Next]_vars /\ WF_vars(Next)

Terminated == pc \in {"done", "error"}

\* The events that end the processing of an action without a failure.
ProcessedEvents == {"skip", "stored", "completed", "echo_rendered", "saved"}

\* C20: the run processes the actions in strictly increasing source index,
\* gate-checks and dispatches each action at most once, and, every
\* collaborator call returning, always reaches one of two terminal states:
\* success after action n has been processed or skipped, or error at the
\* first failing action.
C20_RunsInOrderAndTerminates ==
    /\ [][ /\ index' \in {index, index + 1}
           /\ pc' = "gate" => index' = index + 1
           /\ pc' = "dispatch" => (pc = "gate" /\ index' = index)
           /\ ~Terminated
         ]_vars
    /\ [](\A p, q \in 1..Len(trace) :
             p < q => /\ trace[p].index <= trace[q].index
                      /\ (trace[p].ev = "confirm" /\ trace[q].ev = "confirm")
                             => trace[p].index < trace[q].index)
    /\ [](pc = "done" =>
             /\ error = NoError
             /\ index = Len(actions)
             /\ \A i \in 1..Len(actions) :
                   \E p \in 1..Len(trace) :
                      trace[p].index = i /\ trace[p].ev \in ProcessedEvents)
    /\ [](pc = "error" =>
             /\ error # NoError
             /\ \A p \in 1..Len(trace) :
                   /\ trace[p].index <= index
                   /\ trace[p].index = index => trace[p].ev \notin ProcessedEvents)
    /\ <>Terminated

\* A run of three actions ended in success, one action skipped at its gate
\* and one dispatched.
C20_Witness ==
    /\ pc = "done"
    /\ Len(actions) = 3
    /\ \E p, q \in 1..Len(trace) :
          /\ trace[p].ev = "skip"
          /\ trace[q].ev = "stored"
          /\ trace[p].index < trace[q].index

----------------------------------------------------------------------------
(* The accesses a loop binds, read off the syntax tree. *)

\* The accesses of the nodes whose path has at least two segments and whose
\* base an enclosing loop binds: the base, the field, the number of enclosing
\* loops that bind the base, and the iterable of the innermost of them.
\* `binds` holds the enclosing loops, outermost first.  The body of a loop
\* is inside its binding; its iterable and its else clause are outside.
RECURSIVE BoundAccesses(_, _)
RECURSIVE BoundAccessesAll(_, _)
BoundAccessesAll(ns, binds) ==
    IF ns = <<>> THEN {}
    ELSE BoundAccesses(Head(ns), binds) \cup BoundAccessesAll(Tail(ns), binds)

BoundAccesses(node, binds) ==
    IF node.k = "For"
    THEN BoundAccesses(node.iter, binds)
         \cup BoundAccessesAll(node.body, Append(binds, node))
         \cup BoundAccessesAll(node.else_, binds)
    ELSE (IF node.k \in {"Getattr", "Getitem"} /\ Len(_flatten_access(node)) >= 2
          THEN LET base == _flatten_access(node)[1]
                   hits == { j \in 1..Len(binds) :
                               base \in _extract_target_names(binds[j].target) }
               IN  IF hits = {} THEN {}
                   ELSE { [base |-> base,
                           attr |-> _flatten_access(node)[2],
                           times |-> Cardinality(hits),
                           iter |-> binds[CHOOSE j \in hits :
                                             \A h \in hits : h <= j].iter] }
          ELSE {})
         \cup BoundAccessesAll(Children(node), binds)

\* C21: an access base.attr inside nested loops that bind base more than
\* once is attributed to the iterable of the innermost enclosing loop whose
\* targets hold base; when that innermost iterable is not a bare name the
\* access adds nothing to list_fields or nested_fields, even when an outer
\* loop binds the name over a bare name; an access on the loop metadata
\* adds nothing either.
C21_InnermostBindingDecides ==
    tpc \in {"prompt", "done"} =>
        /\ \A access \in BoundAccesses(template_content, <<>>) :
              (access.times >= 2 /\ access.iter.k = "Name") =>
                  /\ access.iter.name \in DOMAIN visitor.list_fields
                  /\ access.attr \in visitor.list_fields[access.iter.name]
        /\ \A X \in DOMAIN visitor.list_fields :
              \A f \in visitor.list_fields[X] :
                  \E access \in BoundAccesses(template_content, <<>>) :
                      access.iter = Name(X) /\ access.attr = f
        /\ \A base \in DOMAIN visitor.nested_fields :
              \A f \in visitor.nested_fields[base] :
                  <<base, f>> \in GlobalAccesses(template_content, {})

\* The names the loops of the nodes bind.
TargetsOf(ns) ==
    UNION { _extract_target_names(loop.target) : loop \in LoopsOfAll(ns) }

\* The (name, field) pairs of the accesses that come when a loop binding
\* the name is over, in its else clause or after the loop, and that no
\* enclosing loop binds there.  `bound` holds the names the enclosing loops
\* bind, `ended` the targets of the loops whose body is over.
RECURSIVE EndedAccesses(_, _, _)
RECURSIVE EndedAccessesAll(_, _, _)
EndedAccessesAll(ns, bound, ended) ==
    IF ns = <<>> THEN {}
    ELSE EndedAccesses(Head(ns), bound, ended)
         \cup EndedAccessesAll(Tail(ns), bound,
                               ended \cup TargetsOf(<<Head(ns)>>))

EndedAccesses(node, bound, ended) ==
    IF node.k = "For"
    THEN EndedAccesses(node.iter, bound, ended)
         \cup EndedAccessesAll(node.body,
                  bound \cup _extract_target_names(node.target) \cup {N_loop},
                  ended)
         \cup EndedAccessesAll(node.else_, bound,
                  ended \cup TargetsOf(<<node>>))
    ELSE (IF node.k \in {"Getattr", "Getitem"}
             /\ Len(_flatten_access(node)) >= 2
             /\ _flatten_access(node)[1] \notin bound
             /\ _flatten_access(node)[1] \in ended
          THEN { <<_flatten_access(node)[1], _flatten_access(node)[2]>> }
          ELSE {})
         \cup EndedAccessesAll(Children(node), bound, ended)

----------------------------------------------------------------------------
(* _render_template_content step by step, and the emission of its result   *)
(* by _run_template_action: the evaluation, one command block after the    *)
(* other, the echo or the write.                                           *)

MaxRenderPieces == 3

\* The pieces of the evaluated texts: whole command blocks, a blank block,
\* plain text, a stray closing marker.
RenderPieces ==
    { <<"{", ">", "l", "<", "}">>, <<"{", ">", "w", " ", "<", "}">>,
      <<"{", ">", " ", "<", "}">>, <<"l">>, <<"<", "}">> }

EvaluatedTexts ==
    { Concat(ps) : ps \in UNION { [1..n -> RenderPieces] : n \in 0..MaxRenderPieces } }

\* What env.from_string(template_content).render(**context_data) does: it
\* raises TemplateError or returns a text.
Evaluations ==
    { [ok |-> FALSE, text |-> <<>>] }
    \cup { [ok |-> TRUE, text |-> t] : t \in EvaluatedTexts }

\* action.get("output"): absent, or a path.
Outputs == { None, Str(<<"w">>) }

InitRender ==
    /\ Idle
    /\ recipe = [kind |-> "missing", list |-> <<>>]
    /\ actions = <<>>
    /\ index = 0
    /\ variables = EmptyTable
    /\ cmdSeq = <<>>
    /\ cmdPos = 0
    /\ error = NoError
    /\ trace = <<>>
    /\ pc = "evaluate"
    /\ called = "_render_template_content"
    /\ call_args \in { <<evaluation, output>> :
                          evaluation \in Evaluations, output \in Outputs }
    /\ returned = <<>>

\* Lines 340-344: the template is evaluated; TemplateError ends the render.
\* On success cmdPos is where COMMAND_PATTERN.sub scans next and returned
\* holds the text it has produced so far.
EvaluateTemplate ==
    /\ pc = "evaluate"
    /\ IF call_args[1].ok
       THEN /\ pc' = "substitute"
            /\ cmdPos' = 1
            /\ returned' = << <<>> >>
            /\ trace' = Append(trace, Event("evaluated", 0, 0, <<>>, 0))
            /\ error' = error
       ELSE /\ pc' = "failed"
            /\ error' = Error("render_failed", 0, <<>>, 0)
            /\ trace' = Append(trace, Event("evaluated", 0, 0, <<>>, 1))
            /\ UNCHANGED <<cmdPos, returned>>
    /\ UNCHANGED <<recipe, actions, index, variables, cmdSeq, tvars, called,
                   call_args>>

\* The leftmost match of COMMAND_PATTERN at or after position i, or 0.
RECURSIVE NextMatch(_, _)
NextMatch(text, i) ==
    IF i > Len(text) THEN 0
    ELSE IF CommandMatchEnd(text, i) # 0 THEN i
    ELSE NextMatch(text, i + 1)

\* COMMAND_PATTERN.sub calls _run on the next match: the text before the
\* match is copied, the command is run, its output replaces the block.  A
\* blank command, a process that cannot be started and a non-zero exit
\* status raise.
SubstituteBlock ==
    /\ pc = "substitute"
    /\ LET text == call_args[1].text
           i == NextMatch(text, cmdPos)
       IN  /\ i # 0
           /\ LET k == CommandMatchEnd(text, i)
                  group == SubSeq(text, i + 2, k - 1)
                  command == StripBlanks(group)
              IN  IF command = <<>>
                  THEN /\ pc' = "failed"
                       /\ error' = Error(RunBlock(group, NotStarted).kind, 0, <<>>, 0)
                       /\ UNCHANGED <<trace, cmdPos, returned>>
                  ELSE \E completed \in ShellOutcomes :
                         LET r == RunBlock(group, completed)
                         IN  /\ trace' =
                                   Append(trace,
                                          Event(IF completed.started THEN "shell"
                                                ELSE "oserror",
                                                0, i, <<command>>,
                                                completed.returncode))
                             /\ IF r.ok
                                THEN /\ cmdPos' = k + 2
                                     /\ returned' =
                                           << returned[1]
                                              \o SubSeq(text, cmdPos, i - 1)
                                              \o r.text >>
                                     /\ UNCHANGED <<pc, error>>
                                ELSE /\ pc' = "failed"
                                     /\ error' = Error(r.kind, 0, command,
                                                       completed.returncode)
                                     /\ UNCHANGED <<cmdPos, returned>>
    /\ UNCHANGED <<recipe, actions, index, variables, cmdSeq, tvars, called,
                   call_args>>

\* No match is left: the rest of the text is copied and the render returns.
FinishSubstitute ==
    /\ pc = "substitute"
    /\ NextMatch(call_args[1].text, cmdPos) = 0
    /\ returned' = << returned[1]
                      \o SubSeq(call_args[1].text, cmdPos, Len(call_args[1].text)) >>
    /\ pc' = "rendered"
    /\ UNCHANGED <<recipe, actions, index, variables, cmdSeq, cmdPos, error,
                   trace, tvars, called, call_args>>

\* Lines 535-555: the rendered text is echoed, or written to the output
\* path, which may fail.
EmitRendered ==
    /\ pc = "rendered"
    /\ IF call_args[2] = None
       THEN /\ trace' = Append(trace, Event("echo_rendered", 0, 0, returned, 0))
            /\ pc' = "emitted"
            /\ error' = error
       ELSE \E written \in BOOLEAN :
              /\ trace' = Append(trace,
                                 Event("write", 0, 0,
                                       <<call_args[2].val>> \o returned,
                                       IF written THEN 0 ELSE 1))
              /\ pc' = IF written THEN "emitted" ELSE "failed"
              /\ error' = IF written THEN error
                          ELSE Error("write_failed", 0, call_args[2].val, 0)
    /\ UNCHANGED <<recipe, actions, index, variables, cmdSeq, cmdPos, tvars,
                   called, call_args, returned>>

NextRender ==
    \/ EvaluateTemplate
    \/ SubstituteBlock
    \/ FinishSubstitute
    \/ EmitRendered

SpecRender == InitRender /\ [][NextRender]_vars

\* The stepwise substitution ends where COMMAND_PATTERN.sub run at once
\* ends, the processes doing the same.
RenderAgrees ==
    pc \in {"rendered", "emitted"} =>
        \E outcomes \in [1..MaxRenderPieces -> ShellOutcomes] :
            _substitute_command_blocks(call_args[1].text, outcomes)
                = BlocksOk(returned[1])

\* The commands of the blocks of a text, from position i, left to right.
RECURSIVE CommandsFrom(_, _)
CommandsFrom(text, i) ==
    LET j == NextMatch(text, i)
    IN  IF j = 0 THEN <<>>
        ELSE << StripBlanks(SubSeq(text, j + 2, CommandMatchEnd(text, j) - 1)) >>
             \o CommandsFrom(text, CommandMatchEnd(text, j) + 2)

\* The commands run so far, in the order they were run.
CommandsRun == SelectSeq(trace, LAMBDA e : e.ev = "shell")

\* C23: no command of a command block is run unless the evaluation of the
\* template has completed successfully; the blocks are then run one at a
\* time, left to right in the rendered text; and when a command exits
\* non-zero the render fails, no later command is run and no text is echoed
\* or written.
C23_BlocksRunAfterEvaluationInOrder ==
    /\ CommandsRun # <<>> =>
          /\ call_args[1].ok
          /\ trace[1] = Event("evaluated", 0, 0, <<>>, 0)
    /\ Len(CommandsRun) <= Len(CommandsFrom(call_args[1].text, 1))
    /\ \A p \in 1..Len(CommandsRun) :
          /\ CommandsRun[p].argv = << CommandsFrom(call_args[1].text, 1)[p] >>
          /\ p < Len(CommandsRun) =>
                /\ CommandsRun[p].status = 0
                /\ CommandsRun[p].k < CommandsRun[p + 1].k
    /\ \A p \in 1..Len(trace) :
          (trace[p].ev = "shell" /\ trace[p].status # 0) =>
              /\ p = Len(trace)
              /\ pc = "failed"
              /\ error.kind = "exit_code"
    /\ error.kind \in {"render_failed", "empty_block", "run_failed", "exit_code"} =>
          \A p \in 1..Len(trace) : trace[p].ev \notin {"echo_rendered", "write"}

\* The first of three blocks has run, the second has exited with status 1:
\* the render has failed and the third has not been run.
C23_Witness ==
    /\ pc = "failed"
    /\ Len(CommandsFrom(call_args[1].text, 1)) = 3
    /\ Len(CommandsRun) = 2
    /\ CommandsRun[1].status = 0
    /\ CommandsRun[2].status = 1
    /\ error.kind = "exit_code"

----------------------------------------------------------------------------
(* _resolve_context_values on the context of one template action *)

MaxResolveItems == 2

\* The strings of a context: a variable name, placeholders of a known and
\* of an unknown name, a placeholder inside other text, plain text.
ResolveStrings == { <<"v">>, RefV, RefW, <<"v">> \o RefV, <<"1">> }

ResolveLeaves == { Str(t) : t \in ResolveStrings } \cup { IntVal }

\* The values of a context: strings, an integer, lists, a nested table.
ResolveValues ==
    ResolveLeaves
    \cup { List(xs) :
             xs \in UNION { [1..n -> ResolveLeaves] : n \in 0..MaxResolveItems } }
    \cup { Table(<<Entry(<<"v">>, x)>>) : x \in ResolveLeaves }

\* action.get("context"): a table of up to MaxResolveItems entries, under
\* the keys k1, k11, ..
ResolveContexts ==
    { Table([j \in 1..n |-> Entry(<<"k">> \o [i \in 1..j |-> "1"], f[j])]) :
        <<n, f>> \in UNION { { <<n, f>> : f \in [1..n -> ResolveValues] } :
                               n \in 1..MaxResolveItems } }

\* The variable tables: what the prompts before the action have stored,
\* under the names and with the answers the recipe and the user chose.
ResolveTables ==
    { EmptyTable,
      (<<"v">> :> <<"1">>),
      (<<"v">> :> RefV),
      (<<"v">> :> RefV) @@ (RefV :> <<"1">>),
      (<<"v">> :> <<"w">>) @@ (<<"w">> :> <<"1">>) }

InitResolve ==
    /\ Idle
    /\ NoRecipe
    /\ called = "_resolve_context_values"
    /\ call_args \in { <<c, vs>> : c \in ResolveContexts, vs \in ResolveTables }
    /\ returned = <<>>

CallResolve ==
    /\ called = "_resolve_context_values"
    /\ returned = <<>>
    /\ returned' = << _resolve_context_values(call_args[1], call_args[2]) >>
    /\ UNCHANGED <<evars, tvars, called, call_args>>

NextResolve == CallResolve

SpecResolve == InitResolve /\ [][NextResolve]_vars

\* Some placeholder of the text names no key of the table.
NamesUnknown(text, vs) ==
    \E ie \in PlaceholdersOf(text) : PlaceholderName(text, ie) \notin DOMAIN vs

\* The string a string of the context resolves to, all its placeholders
\* being known.  Tier one applies when the string holds a placeholder
\* (by_placeholder) or when substituting its placeholders changes it.
StringResolved(text, vs, by_placeholder) ==
    LET first_tier == IF by_placeholder THEN PlaceholdersOf(text) # {}
                      ELSE Replaced(text, vs) # text
    IN  IF first_tier THEN Replaced(text, vs)
        ELSE IF text \in DOMAIN vs THEN vs[text]
        ELSE text

\* Some string anywhere in the value names an unknown variable.
RECURSIVE HoldsUnknown(_, _)
HoldsUnknown(value, vs) ==
    IF IsStr(value) THEN NamesUnknown(value.val, vs)
    ELSE IF IsList(value) \/ IsTable(value)
    THEN \E j \in 1..Len(value.items) : HoldsUnknown(value.items[j], vs)
    ELSE FALSE

\* The value with every string resolved, element by element, keys and other
\* values kept.
RECURSIVE ValueResolved(_, _, _)
ValueResolved(value, vs, by_placeholder) ==
    IF IsStr(value)
    THEN Entry(value.key, Str(StringResolved(value.val, vs, by_placeholder)))
    ELSE IF IsList(value) \/ IsTable(value)
    THEN [value EXCEPT !.items =
             [j \in 1..Len(value.items) |->
                 ValueResolved(value.items[j], vs, by_placeholder)]]
    ELSE value

\* The call returned what the rule says, or failed on an unknown name.
ResolvedBy(by_placeholder) ==
    returned # <<>> =>
        LET value == call_args[1]
            vs == call_args[2]
            r == returned[1]
        IN  IF HoldsUnknown(value, vs)
            THEN ~r.ok /\ r.name \notin DOMAIN vs
            ELSE r.ok /\ r.value = ValueResolved(value, vs, by_placeholder)

\* C24 (as stated): each string s of the context resolves by two tiers: if
\* s holds placeholders the result is s with them substituted; otherwise,
\* if s is a key of the variable table, that variable's value; otherwise s;
\* lists and tables are resolved element by element, keys and other values
\* unchanged, and an unknown placeholder name fails the call.
C24_PlaceholderTierFirst == ResolvedBy(TRUE)

\* C24 (amended): the first tier applies when substituting the
\* placeholders of s changes s; a string the substitution leaves as it is,
\* for want of placeholders or because each placeholder's value is the
\* placeholder itself, resolves to the variable it names if it is a key of
\* the table, and to itself otherwise; lists and tables are resolved element
\* by element, keys and other values unchanged, and an unknown placeholder
\* name fails the call.
C24_UnchangedTextIsLookedUp == ResolvedBy(FALSE)

\* A context with a variable name, a placeholder and an integer in a list
\* was resolved: the name to the variable's value, the placeholder to the
\* value of the name in it.
C24_Witness ==
    /\ returned # <<>>
    /\ call_args[2] = (<<"v">> :> <<"w">>) @@ (<<"w">> :> <<"1">>)
    /\ call_args[1] =
          Table(<< Entry(<<"k", "1">>, Str(<<"v">>)),
                   Entry(<<"k", "1", "1">>, List(<<Str(RefV), IntVal>>)) >>)
    /\ returned[1].ok
    /\ returned[1].value =
          Table(<< Entry(<<"k", "1">>, Str(<<"w">>)),
                   Entry(<<"k", "1", "1">>, List(<<Str(<<"w">>), IntVal>>)) >>)

----------------------------------------------------------------------------
(* The entries of the skeleton and the free variables of the template *)

\* The top-level names the seed has an entry for: a pair, a table or an
\* array of tables.
SkeletonEntries ==
    { seed.lines[j].path[1] :
        j \in { i \in 1..Len(seed.lines) :
                  seed.lines[i].kind \in {"pair", "table_header", "aot_header"} } }

\* C25: every key of list_fields, and so every top-level entry of the
\* skeleton built without a preset, is a free (undeclared) variable of the
\* template: a name a loop target binds, such as the target of an outer
\* loop that is the iterable of an inner loop, is never a skeleton entry.
C25_SkeletonEntriesAreFree ==
    BuiltWithoutPreset =>
        /\ DOMAIN visitor.list_fields \subseteq FreeVariables
        /\ SkeletonEntries \subseteq FreeVariables

====
